---- MODULE Spec2Model ----
(***************************************************************************)
(* A model of the scolarix-api request pipeline: the authorization gate    *)
(* (AuthMiddleware.authenticate / authorize), the Joi validation           *)
(* middleware, the central error handler, the query builder (APIFeatures)  *)
(* and the controllers that the checked properties are about.              *)
(*                                                                         *)
(* Conventions.  A JavaScript string that the code inspects character by   *)
(* character is a sequence of one-character strings; an optional value     *)
(* (undefined / null / absent row) is the empty sequence << >> and a       *)
(* present value v is << v >>.  Floating point numbers are modelled by     *)
(* exact rationals [num, den]; rounding of IEEE doubles is not modelled.   *)
(***************************************************************************)
EXTENDS Integers, Sequences, FiniteSets, TLC

VARIABLES
  env,       \* process.env: [JWT_SECRET : BOOLEAN, RES_PER_PAGE : << >> or << text >>]
  users,     \* table users:     userId   -> << >> or << row >>
  eleves,    \* table eleves:    matricul -> << >> or << row >>
  classes,   \* table classes:   classeId -> << >> or << row >>
  notes,     \* table notes:     <<matricul, codeEva, codeCompo>> -> << >> or << note >>
  moyennes,  \* table moyennes:  <<matricul, codeCompo>> -> << >> or << [num, den] >>
  ecoles,    \* table ecoles:    ecoleId -> << >> or << row >>
  resultats, \* table resultats: <<matricul, anneeCode>> -> << >> or << row >>
  tombs,     \* the rows whose deletedAt is set: {[model, row]}; a table above
             \* holds the rows whose deletedAt is null
  req,       \* the request being served
  pc,        \* the handler of the route's chain that runs next
  auth,      \* req.auth: << >> or << [userId, userRole, ecoleId] >>
  resp,      \* the responses written for the current request, in order
  trace,     \* the handlers that have run for the current request, in order
  sqlQuery,  \* this.query of the APIFeatures instance being chained
  locals,    \* the local variables of the handlers that are suspended at an await
  before     \* table moyennes as it was when the current request arrived

vars ==
  <<env, users, eleves, classes, notes, moyennes, ecoles, resultats, tombs,
    req, pc, auth, resp, trace, sqlQuery, locals, before>>

(***************************************************************************)
(* Bounds of the model.                                                    *)
(***************************************************************************)
NumEcoles == 2
NumUsers == 3
NumEleves == 2
NumClasses == 2
NumEvas == 2
NumCompos == 1
NumAnnees == 1
NumCalls == 2

(***************************************************************************)
(* Character strings.                                                      *)
(***************************************************************************)
Digits == <<"0", "1", "2", "3", "4", "5", "6", "7", "8", "9">>

DigitValue(c) == CHOOSE d \in 0..9 : Digits[d + 1] = c

IsDigit(c) == \E d \in 0..9 : Digits[d + 1] = c

\* s.includes(t)
Includes(s, t) ==
  \E i \in 1..(Len(s) - Len(t) + 1) : SubSeq(s, i, i + Len(t) - 1) = t

\* s.indexOf(t), 1-based; 0 when t does not occur
IndexOf(s, t) ==
  IF Includes(s, t)
    THEN CHOOSE i \in 1..(Len(s) - Len(t) + 1) :
           /\ SubSeq(s, i, i + Len(t) - 1) = t
           /\ \A j \in 1..(i - 1) : SubSeq(s, j, j + Len(t) - 1) # t
    ELSE 0

\* s.replace(t, ''): removes the first occurrence of t only
RemoveFirst(s, t) ==
  LET i == IndexOf(s, t) IN
  IF i = 0 THEN s ELSE SubSeq(s, 1, i - 1) \o SubSeq(s, i + Len(t), Len(s))

RECURSIVE Split(_, _)
\* s.split(c) for a one-character separator c
Split(s, c) ==
  LET i == IndexOf(s, <<c>>) IN
  IF i = 0 THEN <<s>>
  ELSE <<SubSeq(s, 1, i - 1)>> \o Split(SubSeq(s, i + 1, Len(s)), c)

RECURSIVE Trim(_)
\* s.trim()
Trim(s) ==
  IF s = <<>> THEN s
  ELSE IF Head(s) = " " THEN Trim(Tail(s))
  ELSE IF s[Len(s)] = " " THEN Trim(SubSeq(s, 1, Len(s) - 1))
  ELSE s

LowerOf == [c \in {"A", "B", "C", "E", "M", "F"} |->
             CASE c = "A" -> "a" [] c = "B" -> "b" [] c = "C" -> "c"
               [] c = "E" -> "e" [] c = "M" -> "m" [] c = "F" -> "f"]

\* case folding of the characters the model uses (for iLike)
Lower(s) == [i \in 1..Len(s) |-> IF s[i] \in DOMAIN LowerOf THEN LowerOf[s[i]] ELSE s[i]]

RECURSIVE Join(_)
\* the string made of the characters of s
Join(s) == IF s = <<>> THEN "" ELSE Head(s) \o Join(Tail(s))

RECURSIVE DigitsValue(_, _)
\* value of the longest prefix of decimal digits of s, continuing from acc
DigitsValue(s, acc) ==
  IF s = <<>> \/ ~IsDigit(Head(s)) THEN acc
  ELSE DigitsValue(Tail(s), 10 * acc + DigitValue(Head(s)))

RECURSIVE SkipSpaces(_)
SkipSpaces(s) == IF s # <<>> /\ Head(s) = " " THEN SkipSpaces(Tail(s)) ELSE s

\* parseInt(s, 10) and parseFloat(s) on strings without a fraction or an
\* exponent: << >> is NaN, << n >> the number read
ParseNumber(s) ==
  LET t == SkipSpaces(s)
      neg == t # <<>> /\ Head(t) = "-"
      u == IF t # <<>> /\ Head(t) \in {"-", "+"} THEN Tail(t) ELSE t
  IN IF u = <<>> \/ ~IsDigit(Head(u)) THEN <<>>
     ELSE <<(IF neg THEN -1 ELSE 1) * DigitsValue(u, 0)>>

parseInt(v) == IF v = <<>> THEN <<>> ELSE ParseNumber(v[1])

parseFloat(s) == ParseNumber(s)


(***************************************************************************)
(* The population of the store.                                            *)
(***************************************************************************)
Roles == <<"Administrator", "Teacher", "OtherRole">>

\* the ecole ids EC001, EC002, ... (format ^EC[0-9]{3}$)
EcoleId(i) == <<"E", "C", "0", "0", Digits[i + 1]>>

Ecoles == {EcoleId(i) : i \in 1..NumEcoles}

UserIds == 1..NumUsers

Matricules == 1..NumEleves

ClasseIds == 1..NumClasses

Evas == 1..NumEvas

Compos == 1..NumCompos

\* user u was created with this role (users 1, 2, 3 cover the three roles)
RoleOf(u) == Roles[((u - 1) % 3) + 1]

(***************************************************************************)
(* ErrorResponse.  A status code is a number, or                           *)
(* whatever else the caller put in the statusCode position.                *)
(***************************************************************************)
Num(n) == [t |-> "number", n |-> n]

NotANumber == [t |-> "object", n |-> 0]

NoStatus == [t |-> "undefined", n |-> 0]

\* new ErrorResponse(message, code, statusCode): the second argument is the
\* code, the third the status code
ErrorResponse(code, statusCode) ==
  [cls |-> "ErrorResponse", name |-> "Error", code |-> code, statusCode |-> statusCode]

\* an error that is no ErrorResponse: a TypeError, a Sequelize error, ...
OtherError(name) ==
  [cls |-> "Error", name |-> name, code |-> "", statusCode |-> NoStatus]

\* the decimal text of the HTTP statuses the program uses
StatusText(n) ==
  CASE n = 200 -> "200" [] n = 201 -> "201" [] n = 400 -> "400" [] n = 401 -> "401"
    [] n = 403 -> "403" [] n = 404 -> "404" [] n = 409 -> "409" [] n = 422 -> "422"
    [] n = 500 -> "500" [] OTHER -> "?"

\* res.status(s).json(...) writes a response only for a numeric status in
\* 100..999; node's writeHead throws a RangeError for anything else
CanWrite(s) == s.t = "number" /\ s.n >= 100 /\ s.n <= 999

Response(status, code, by, data) ==
  [status |-> status, code |-> code, by |-> by, data |-> data]

(***************************************************************************)
(* createErrorHandler, the central error handler.                          *)
(***************************************************************************)
\* let statusCode = err.statusCode || 500, then the remapping by err.name
HandlerStatus(err) ==
  CASE err.name = "SequelizeValidationError" -> Num(422)
    [] err.name = "SequelizeUniqueConstraintError" -> Num(409)
    [] err.name = "SequelizeDatabaseError" -> Num(400)
    [] err.name = "SequelizeForeignKeyConstraintError" -> Num(409)
    [] err.name = "UnauthorizedError" -> Num(401)
    [] OTHER -> IF err.statusCode.t = "undefined" \/ (err.statusCode.t = "number" /\ err.statusCode.n = 0)
                  THEN Num(500) ELSE err.statusCode

\* the response the error handler writes: the body is
\* {success:false, message, error:{code: statusCode}}.  When the status is
\* not writable the handler itself throws and express' final handler
\* answers 500.  data.raised is the code of the error handled; it is not
\* part of the body.
errorHandler(err) ==
  LET s == HandlerStatus(err) IN
  IF CanWrite(s) THEN Response(s.n, StatusText(s.n), "errorHandler", [raised |-> err.code])
  ELSE Response(500, "", "finalhandler", [raised |-> err.code])

\* Controller.handleError: an ErrorResponse goes to next() as it is, any
\* other error as ErrorResponse(message, 'SERVER_ERROR', 500)
handleError(err) ==
  IF err.cls = "ErrorResponse" THEN err ELSE ErrorResponse("SERVER_ERROR", Num(500))

(***************************************************************************)
(* Validator.  A body is a record of the                                   *)
(* fields below, each << >> (absent) or << value >>.                       *)
(***************************************************************************)
BodyFields == {"eleve", "compos", "matriculEleve", "codeCompo", "moyenne"}

NoBody == [f \in BodyFields |-> <<>>]

Present(body) == {f \in BodyFields : body[f] # <<>>}

\* moyenneCreateSchema: matriculEleve, codeCompo and moyenne are required,
\* moyenne is a number in [0, 10], and no other key is allowed
moyenneCreateSchema(body) ==
  /\ Present(body) = {"matriculEleve", "codeCompo", "moyenne"}
  /\ body.moyenne[1] >= 0 /\ body.moyenne[1] <= 10

\* the keys of a body given as a record of its own fields
Keys(body) == {f \in DOMAIN body : body[f] # <<>>}

\* Joi.string(): a string, and not the empty one
IsText(v) == v # <<>> /\ v[1] # <<>>

\* /^EC[0-9]{3}$/
IsEcoleId(s) ==
  /\ Len(s) = 5 /\ s[1] = "E" /\ s[2] = "C"
  /\ \A i \in 3..5 : IsDigit(s[i])

\* /^[0-9]{4}-[0-9]{4}$/
IsAnneeCode(s) ==
  /\ Len(s) = 9 /\ s[5] = "-"
  /\ \A i \in (1..4) \cup (6..9) : IsDigit(s[i])

\* loginSchema: username and password are required strings, nothing else
loginSchema(body) ==
  /\ Keys(body) = {"username", "password"}
  /\ IsText(body.username) /\ IsText(body.password)

\* ecoleCreateSchema: ecoleId and ecoleName (3 to 100 characters) are
\* required, ville is optional and may be empty
ecoleCreateSchema(body) ==
  /\ {"ecoleId", "ecoleName"} \subseteq Keys(body)
  /\ Keys(body) \subseteq {"ecoleId", "ecoleName", "ville"}
  /\ IsEcoleId(body.ecoleId[1])
  /\ Len(body.ecoleName[1]) >= 3 /\ Len(body.ecoleName[1]) <= 100
  /\ body.ville # <<>> => Len(body.ville[1]) <= 50

\* noteCreateSchema: matriculEleve, codeEva, codeCompo and note are
\* required, note is a number in [0, 10], and no other key is allowed
noteCreateSchema(body) ==
  /\ Keys(body) = {"matriculEleve", "codeEva", "codeCompo", "note"}
  /\ body.note[1] >= 0 /\ body.note[1] <= 10

Decisions == {"Admis", "Refuse", "Passage"}

\* resultatCreateSchema: matriculEleve, anneeCode, decision, rang and mga
\* are required, and no other key is allowed
resultatCreateSchema(body) ==
  /\ Keys(body) = {"matriculEleve", "anneeCode", "decision", "rang", "mga"}
  /\ IsAnneeCode(body.anneeCode[1])
  /\ body.decision[1] \in Decisions
  /\ body.rang[1] >= 1
  /\ body.mga[1] >= 0 /\ body.mga[1] <= 10

\* noteUpdateSchema: note, a number in [0, 10], optional, but the body has
\* at least one key and no other key is allowed
noteUpdateSchema(body) ==
  /\ Keys(body) = {"note"}
  /\ body.note[1] >= 0 /\ body.note[1] <= 10

\* moyenneUpdateSchema: moyenne, a number in [0, 10], optional, in a body of
\* at least one key
moyenneUpdateSchema(body) ==
  /\ Keys(body) = {"moyenne"}
  /\ body.moyenne[1] >= 0 /\ body.moyenne[1] <= 10

\* the constraints userCreateSchema and userUpdateSchema put on the keys a
\* body has: username of 3 to 50 characters, password of 6 or more, userRole
\* one of the three roles, ecoleId like EC001
UserFieldsValid(body) ==
  /\ "username" \in Keys(body) => Len(body.username[1]) >= 3 /\ Len(body.username[1]) <= 50
  /\ "password" \in Keys(body) => Len(body.password[1]) >= 6
  /\ "userRole" \in Keys(body) => \E i \in 1..Len(Roles) : Roles[i] = body.userRole[1]
  /\ "ecoleId" \in Keys(body) => IsEcoleId(body.ecoleId[1])

\* userCreateSchema: the four keys are required and no other is allowed
userCreateSchema(body) ==
  Keys(body) = {"username", "password", "userRole", "ecoleId"} /\ UserFieldsValid(body)

\* userUpdateSchema: the four keys are optional, no other is allowed and the
\* body has at least one
userUpdateSchema(body) ==
  /\ Keys(body) # {}
  /\ Keys(body) \subseteq {"username", "password", "userRole", "ecoleId"}
  /\ UserFieldsValid(body)

SchemaAccepts(schema, body) ==
  CASE schema = "userCreateSchema" -> userCreateSchema(body)
    [] schema = "userUpdateSchema" -> userUpdateSchema(body)
    [] schema = "moyenneCreateSchema" -> moyenneCreateSchema(body)
    [] schema = "noteUpdateSchema" -> noteUpdateSchema(body)
    [] schema = "moyenneUpdateSchema" -> moyenneUpdateSchema(body)
    [] schema = "loginSchema" -> loginSchema(body)
    [] schema = "ecoleCreateSchema" -> ecoleCreateSchema(body)
    [] schema = "noteCreateSchema" -> noteCreateSchema(body)
    [] schema = "resultatCreateSchema" -> resultatCreateSchema(body)
    [] OTHER -> TRUE

\* Validator.validate: returns when the schema accepts the data; otherwise
\* `throw new new ErrorResponse(...)` applies `new` to an ErrorResponse
\* instance, which is a TypeError, so that is what is thrown.  << >> when
\* nothing is thrown.
validate(body, schema) ==
  IF SchemaAccepts(schema, body) THEN <<>> ELSE <<OtherError("TypeError")>>


(***************************************************************************)
(* APIFeatures, the query builder.  A query string is a record of the     *)
(* parameters below, each << >> (absent) or << string >>.  The plan built  *)
(* from it is the object handed to Model.findAll.                          *)
(***************************************************************************)
excludedFields == {"page", "sort", "limit", "fields", "keyword"}

\* the parameters that name an attribute of a model
FilterKeys == {"ecoleId", "libelle", "lastname"}

QueryKeys == excludedFields \cup FilterKeys

NoQuery == [k \in QueryKeys |-> <<>>]

Cond(op, str, num, list) == [op |-> op, str |-> str, num |-> num, list |-> list]

\* the condition filter() builds from one string value: the first operator
\* token the value contains, tested in the order gte, gt, lte, lt, in, ne,
\* decides; its first occurrence is removed from the value
FilterCond(value) ==
  IF Includes(value, <<"g", "t", "e">>)
    THEN Cond("gte", <<>>, parseFloat(RemoveFirst(value, <<"g", "t", "e">>)), <<>>)
  ELSE IF Includes(value, <<"g", "t">>)
    THEN Cond("gt", <<>>, parseFloat(RemoveFirst(value, <<"g", "t">>)), <<>>)
  ELSE IF Includes(value, <<"l", "t", "e">>)
    THEN Cond("lte", <<>>, parseFloat(RemoveFirst(value, <<"l", "t", "e">>)), <<>>)
  ELSE IF Includes(value, <<"l", "t">>)
    THEN Cond("lt", <<>>, parseFloat(RemoveFirst(value, <<"l", "t">>)), <<>>)
  ELSE IF Includes(value, <<"i", "n">>)
    THEN Cond("in", <<>>, <<>>, Split(RemoveFirst(value, <<"i", "n">>), ","))
  ELSE IF Includes(value, <<"n", "e">>)
    THEN Cond("notIn", <<>>, <<>>, Split(RemoveFirst(value, <<"n", "e">>), ","))
  ELSE Cond("eq", value, <<>>, <<>>)

\* the attributes a where clause of the model can name
WhereKeys == FilterKeys \cup {"matriculEleve"}

NoWhere == [k \in WhereKeys |-> <<>>]

\* filter(): one condition per parameter that is not a control key
filter(queryString) ==
  [k \in WhereKeys |->
     IF k \in FilterKeys /\ queryString[k] # <<>>
       THEN <<FilterCond(queryString[k][1])>> ELSE <<>>]

\* { ...a, ...b }: the keys of b replace those of a
Spread(a, b) == [k \in WhereKeys |-> IF b[k] # <<>> THEN b[k] ELSE a[k]]

\* search(): << >>, or the keyword to match (iLike %keyword%) against any of
\* the searchable fields
search(queryString, searchableFields) ==
  IF queryString.keyword # <<>> /\ queryString.keyword[1] # <<>> /\ searchableFields # {}
    THEN <<queryString.keyword[1]>> ELSE <<>>

\* sort(): the order, a sequence of <<field, direction>>
sort(queryString) ==
  IF queryString.sort # <<>> /\ queryString.sort[1] # <<>>
    THEN LET fs == Split(queryString.sort[1], ",") IN
         [i \in 1..Len(fs) |->
            IF fs[i] # <<>> /\ Head(fs[i]) = "-" THEN <<Join(Tail(fs[i])), "DESC">>
            ELSE <<Join(fs[i]), "ASC">>]
    ELSE << <<"createdAt", "DESC">> >>

defaultExcludedAttributes == {"password", "deletedAt", "createdAt", "updatedAt"}

\* limitFields(): the attributes to select, or the attributes to exclude
limitFields(queryString) ==
  IF queryString.fields # <<>> /\ queryString.fields[1] # <<>>
    THEN LET fs == Split(queryString.fields[1], ",") IN
         [only |-> <<{Join(Trim(fs[i])) : i \in 1..Len(fs)}>>, exclude |-> {}]
    ELSE [only |-> <<>>, exclude |-> defaultExcludedAttributes]

MaxLimit == 1000

DefaultResPerPage == 10

\* parseInt(process.env.RES_PER_PAGE, 10) || 10
ResPerPage(e) == IF parseInt(e.RES_PER_PAGE) = <<>> \/ parseInt(e.RES_PER_PAGE)[1] = 0
                   THEN DefaultResPerPage ELSE parseInt(e.RES_PER_PAGE)[1]

\* x || d for a number x that may be NaN: 0 and NaN are falsy
OrDefault(x, d) == IF x = <<>> \/ x[1] = 0 THEN d ELSE x[1]

Max2(a, b) == IF a >= b THEN a ELSE b

Min2(a, b) == IF a <= b THEN a ELSE b

paginate_Unbounded(queryString, resPerPage) ==
  LET page == OrDefault(parseInt(queryString.page), 1)
      limit == OrDefault(parseInt(queryString.limit), resPerPage)
  IN [page |-> page, limit |-> limit, offset |-> (page - 1) * limit]

\* paginate(resPerPage)
paginate(queryString, resPerPage) ==
  LET page == Max2(OrDefault(parseInt(queryString.page), 1), 1)
      limit == Min2(OrDefault(parseInt(queryString.limit), resPerPage), MaxLimit)
  IN [page |-> page, limit |-> limit, offset |-> (page - 1) * limit]

\* the constructor: this.query = { where: {} }; the parts that no method has
\* set yet are absent
NewQuery ==
  [where |-> NoWhere, keyword |-> <<>>, searchable |-> {}, order |-> <<>>,
   attributes |-> <<>>, window |-> <<>>]

\* the chain .search().filter().sort().limitFields().paginate(resPerPage)
APIFeatures(queryString, searchableFields, resPerPage) ==
  [where |-> Spread(NoWhere, filter(queryString)),
   keyword |-> search(queryString, searchableFields),
   searchable |-> searchableFields,
   order |-> sort(queryString),
   attributes |-> limitFields(queryString),
   window |-> paginate(queryString, resPerPage)]


(***************************************************************************)
(* Model.findAll / Model.count on a table, as the database evaluates the   *)
(* plan.  A row is a function from attribute names to values; strings are  *)
(* character sequences, identifiers and createdAt are numbers.             *)
(***************************************************************************)
NumberAttributes == {"createdAt", "classeId", "matricul", "userId",
                     "matriculEleve", "codeEva", "codeCompo", "note"}

\* the order of the characters the model uses
Alphabet == <<" ", "%", ",", "-", "0", "1", "2", "3", "4", "5", "6", "7", "8", "9",
              "A", "B", "C", "E", "F", "M", "a", "b", "c", "d", "e", "f", "g", "i",
              "l", "m", "n", "o", "r", "s", "t", "x">>

CharRank(c) ==
  IF \E i \in 1..Len(Alphabet) : Alphabet[i] = c
    THEN CHOOSE i \in 1..Len(Alphabet) : Alphabet[i] = c ELSE 0

RECURSIVE StringLess(_, _)
StringLess(a, b) ==
  IF b = <<>> THEN FALSE
  ELSE IF a = <<>> THEN TRUE
  ELSE IF Head(a) = Head(b) THEN StringLess(Tail(a), Tail(b))
  ELSE CharRank(Head(a)) < CharRank(Head(b))

ValueLess(field, a, b) == IF field \in NumberAttributes THEN a < b ELSE StringLess(a, b)

\* whether value v of attribute k satisfies condition c
CondHolds(v, c) ==
  CASE c.op = "eq" -> v = c.str
    [] c.op = "in" -> \E i \in 1..Len(c.list) : c.list[i] = v
    [] c.op = "notIn" -> \A i \in 1..Len(c.list) : c.list[i] # v
    [] OTHER -> FALSE

\* a comparison of a character column with a number is rejected by the
\* database (operator does not exist: character varying >= integer)
CondRejected(k, c) == c.op \in {"gte", "gt", "lte", "lt"} /\ k \notin NumberAttributes

WhereHolds(row, where) ==
  \A k \in WhereKeys : where[k] # <<>> => CondHolds(row[k], where[k][1])

\* iLike '%keyword%' on any of the searchable fields
KeywordHolds(row, keyword, searchable) ==
  keyword = <<>> \/ \E f \in searchable : Includes(Lower(row[f]), Lower(keyword[1]))

RECURSIVE RowBefore(_, _, _)
\* r1 sorts strictly before r2 under the ORDER BY list
RowBefore(r1, r2, order) ==
  IF order = <<>> THEN FALSE
  ELSE LET f == Head(order)[1]
           asc == Head(order)[2] = "ASC"
       IN IF r1[f] = r2[f] THEN RowBefore(r1, r2, Tail(order))
          ELSE IF asc THEN ValueLess(f, r1[f], r2[f]) ELSE ValueLess(f, r2[f], r1[f])

\* the orders in which the database may return the rows S: rows that the
\* ORDER BY list does not separate come in any order
Orderings(S, order) ==
  {s \in [1..Cardinality(S) -> S] :
     /\ \A i, j \in 1..Cardinality(S) : i # j => s[i] # s[j]
     /\ \A i, j \in 1..Cardinality(S) : i < j => ~RowBefore(s[j], s[i], order)}

\* a finder naming an attribute the model does not have, comparing a
\* character column with a number, or a negative LIMIT, fails
PlanRejected(plan, columns) ==
  \/ \E k \in WhereKeys : plan.where[k] # <<>> /\ (k \notin columns \/ CondRejected(k, plan.where[k][1]))
  \/ \E i \in 1..Len(plan.order) : plan.order[i][1] \notin columns
  \/ plan.attributes.only # <<>> /\ \E f \in plan.attributes.only[1] : f \notin columns
  \/ plan.window.limit < 0

\* the attributes of a returned row
Selected(row, attributes) ==
  LET keep == IF attributes.only # <<>> THEN attributes.only[1]
              ELSE DOMAIN row \ attributes.exclude
  IN [f \in keep |-> row[f]]

Window(s, offset, limit) ==
  SubSeq(s, offset + 1, IF offset + limit <= Len(s) THEN offset + limit ELSE Len(s))

\* the results findAll(plan) may give on the rows of a table: << >> for a
\* database error, else << rows >>, the rows of the page in order
findAll(plan, rows, columns) ==
  IF PlanRejected(plan, columns) THEN {<<>>}
  ELSE LET S == {r \in rows : WhereHolds(r, plan.where)
                               /\ KeywordHolds(r, plan.keyword, plan.searchable)}
       IN {<<Window(s, plan.window.offset, plan.window.limit)>> : s \in Orderings(S, plan.order)}

\* count({ where }) with the role's where clause only
count(where, rows) == Cardinality({r \in rows : WhereHolds(r, where)})


(***************************************************************************)
(* The tables.                                                             *)
(***************************************************************************)
LibelleOf(i) == <<"C", "M", Digits[i + 1]>>

LastnameOf(m) == <<"A", "b", "e", Digits[m + 1]>>

FirstnameOf(m) == <<"F", "a", Digits[m + 1]>>

\* the usernames usr1, usr2, ... (unique) and the passwords pw1, pw2, ...
UsernameOf(u) == <<"u", "s", "r", Digits[u + 1]>>

PasswordOf(u) == <<"p", "w", Digits[u + 1]>>

\* bcrypt.hash(password, salt) and bcrypt.compare(candidate, hash)
bcryptHash(password) == [bcrypt |-> password]

bcryptCompare(candidate, hash) == hash = bcryptHash(candidate)

\* a user as created: the beforeCreate hook stored the hash of the password;
\* lastLogin is << >> (null) until the first login
UserRow(u, e) ==
  [userId |-> u, username |-> UsernameOf(u), password |-> bcryptHash(PasswordOf(u)),
   userRole |-> RoleOf(u), ecoleId |-> e, lastLogin |-> <<>>, createdAt |-> u]

EleveRow(m, e) ==
  [matricul |-> m, lastname |-> LastnameOf(m), firstname |-> FirstnameOf(m),
   ecoleId |-> e, createdAt |-> m]

ClasseRow(i, e) == [classeId |-> i, libelle |-> LibelleOf(i), ecoleId |-> e, createdAt |-> i]

NoteRow(m, ev, c, n) ==
  [matriculEleve |-> m, codeEva |-> ev, codeCompo |-> c, note |-> n,
   createdAt |-> (m * (NumEvas + 1) + ev) * (NumCompos + 1) + c]

\* the school names Lyc1, Lyc2, ... (column ecole_name, unique)
EcoleNameOf(i) == <<"L", "y", "c", Digits[i + 1]>>

EcoleRow(id, name) == [ecoleId |-> id, ecoleName |-> name]

\* the school year codes 2021-2022, 2022-2023, ... (format ^[0-9]{4}-[0-9]{4}$)
AnneeCode(i) == <<"2", "0", "2", Digits[i + 1], "-", "2", "0", "2", Digits[i + 2]>>

ResultatRow(m, a, decision, rang, mga) ==
  [matriculEleve |-> m, anneeCode |-> a, decision |-> decision, rang |-> rang, mga |-> mga]

Columns(model) ==
  CASE model = "User" -> {"userId", "username", "password", "userRole", "ecoleId",
                          "lastLogin", "createdAt"}
    [] model = "Eleve" -> {"matricul", "lastname", "firstname", "ecoleId", "createdAt"}
    [] model = "Classe" -> {"classeId", "libelle", "ecoleId", "createdAt"}
    [] model = "Note" -> {"matriculEleve", "codeEva", "codeCompo", "note", "createdAt"}
    [] model = "Ecole" -> {"ecoleId", "ecoleName"}
    [] model = "Resultat" -> {"matriculEleve", "anneeCode", "decision", "rang", "mga"}

\* the rows of a table
Rows(table) == {table[k][1] : k \in {j \in DOMAIN table : table[j] # <<>>}}

NoteRows == {NoteRow(k[1], k[2], k[3], notes[k][1]) : k \in {j \in DOMAIN notes : notes[j] # <<>>}}

\* a path parameter is text: n tells which identifier it spells, numeric
\* whether the text is a decimal number
PathId(numeric, n) == [numeric |-> numeric, n |-> n]

NumericId(n) == PathId(TRUE, n)

TextId == PathId(FALSE, 0)

findByPk_IncludingDeleted(model, id) ==
  CASE id = <<>> -> [failed |-> FALSE, row |-> <<>>]
    [] model = "User" ->
         IF ~id[1].numeric THEN [failed |-> TRUE, row |-> <<>>]
         ELSE LET gone == {t.row : t \in {x \in tombs : x.model = "User"
                                                          /\ x.row.userId = id[1].n}}
              IN [failed |-> FALSE,
                  row |-> IF id[1].n \in DOMAIN users /\ users[id[1].n] # <<>>
                            THEN users[id[1].n]
                          ELSE IF gone # {} THEN <<CHOOSE r \in gone : TRUE>> ELSE <<>>]
    [] model = "Eleve" ->
         [failed |-> FALSE,
          row |-> IF id[1].n \in DOMAIN eleves THEN eleves[id[1].n] ELSE <<>>]
    [] model = "Ecole" ->
         [failed |-> FALSE,
          row |-> IF EcoleId(id[1].n) \in DOMAIN ecoles THEN ecoles[EcoleId(id[1].n)]
                  ELSE <<>>]

\* Model.findByPk(id): [failed, row]; the users' key is an INTEGER column
\* and the database rejects text that is not a number
findByPk(model, id) ==
  CASE id = <<>> -> [failed |-> FALSE, row |-> <<>>]
    [] model = "User" ->
         IF ~id[1].numeric THEN [failed |-> TRUE, row |-> <<>>]
         ELSE [failed |-> FALSE,
               row |-> IF id[1].n \in DOMAIN users THEN users[id[1].n] ELSE <<>>]
    [] model = "Eleve" ->
         [failed |-> FALSE,
          row |-> IF id[1].n \in DOMAIN eleves THEN eleves[id[1].n] ELSE <<>>]
    [] model = "Ecole" ->
         [failed |-> FALSE,
          row |-> IF EcoleId(id[1].n) \in DOMAIN ecoles THEN ecoles[EcoleId(id[1].n)]
                  ELSE <<>>]

(***************************************************************************)
(* AuthMiddleware.                                                         *)
(***************************************************************************)
\* what a middleware did: answered (json), called next(), or threw out of
\* its own catch block
Json(status, code) == [act |-> "json", status |-> status, code |-> code, auth |-> <<>>]

Pass(a) == [act |-> "next", status |-> 0, code |-> "", auth |-> a]

Thrown == [act |-> "throw", status |-> 0, code |-> "", auth |-> <<>>]

\* res.status(s).json({error: {code}})
Send(s, code) == IF CanWrite(s) THEN Json(s.n, code) ELSE Thrown

\* a token: how jwt.verify judges it and the userId it carries
Token(sig, userId) == [sig |-> sig, userId |-> userId]

EmptyToken == Token("empty", 0)

ExtractToken_KeepsEmpty(header) ==
  IF header = <<>> THEN <<>>
  ELSE IF Len(header[1]) < 2 THEN <<>>
  ELSE <<header[1][2]>>

\* authHeader && authHeader.split(' ')[1]; the header is << >> or
\* << parts >>, parts being its split at the spaces
ExtractToken(header) ==
  IF header = <<>> THEN <<>>
  ELSE IF Len(header[1]) < 2 THEN <<>>
  ELSE IF header[1][2] = EmptyToken THEN <<>>
  ELSE <<header[1][2]>>

\* the error jwt.verify throws for the token, << >> when it verifies
jwtVerify(token) ==
  CASE token.sig = "valid" -> <<>>
    [] token.sig = "expired" -> <<OtherError("TokenExpiredError")>>
    [] token.sig = "notBefore" -> <<OtherError("NotBeforeError")>>
    [] OTHER -> <<OtherError("JsonWebTokenError")>>

\* the catch block of authenticate
authenticateCatch(error) ==
  IF error.name = "TokenExpiredError" THEN Send(Num(401), "TOKEN_EXPIRED")
  ELSE IF error.name = "JsonWebTokenError" THEN Send(Num(401), "TOKEN_MALFORMED")
  ELSE IF error.cls = "ErrorResponse" THEN Send(error.statusCode, error.code)
  ELSE Send(Num(401), "INVALID_TOKEN")

\* the userRole generateToken wrote into the payload of the token: the
\* tokens of the requests were issued to the users as they were created
TokenRole(token) == RoleOf(token.userId)

\* authenticate, were it to take the role from the payload of the token
authenticate_TokenRole(header, e) ==
  LET token == ExtractToken(header) IN
  IF token = <<>> THEN Json(401, "AUTH_REQUIRED")
  ELSE IF ~e.JWT_SECRET
    \* new ErrorResponse(message, 500, {code: 'JWT_CONFIG_ERROR', ...})
    THEN authenticateCatch(ErrorResponse("500", NotANumber))
  ELSE IF jwtVerify(token[1]) # <<>> THEN authenticateCatch(jwtVerify(token[1])[1])
  ELSE LET user == findByPk("User", <<NumericId(token[1].userId)>>).row IN
       IF user = <<>> THEN Json(401, "USER_NOT_FOUND")
       ELSE Pass(<<[userId |-> user[1].userId, userRole |-> TokenRole(token[1]),
                    ecoleId |-> user[1].ecoleId]>>)

\* authenticate: the token is verified, the user of decoded.userId is read
\* from the store, and req.auth is built from the stored user
authenticate(header, e) ==
  LET token == ExtractToken(header) IN
  IF token = <<>> THEN Json(401, "AUTH_REQUIRED")
  ELSE IF ~e.JWT_SECRET
    \* new ErrorResponse(message, 500, {code: 'JWT_CONFIG_ERROR', ...})
    THEN authenticateCatch(ErrorResponse("500", NotANumber))
  ELSE IF jwtVerify(token[1]) # <<>> THEN authenticateCatch(jwtVerify(token[1])[1])
  ELSE LET user == findByPk("User", <<NumericId(token[1].userId)>>).row IN
       IF user = <<>> THEN Json(401, "USER_NOT_FOUND")
       ELSE Pass(<<[userId |-> user[1].userId, userRole |-> user[1].userRole,
                    ecoleId |-> user[1].ecoleId]>>)

NoOptions ==
  [ownershipRequired |-> FALSE, model |-> "", idParam |-> "", ownerField |-> "", isOwner |-> ""]

RoleRefused_IdentityOnly(requiredRoles, a) == requiredRoles # {} /\ a = <<>>

\* requiredRoles.length > 0 && (!req.auth || !requiredRoles.includes(req.auth.userRole))
RoleRefused(requiredRoles, a) ==
  requiredRoles # {} /\ (a = <<>> \/ a[1].userRole \notin requiredRoles)

\* the isOwner functions of the routes: the error thrown, or the verdict.
\* eleveOfSchool: eleve && eleve.ecoleId === auth.ecoleId
isOwnerCustomCheck(name, a, resourceId) ==
  LET eleve == findByPk("Eleve", resourceId).row IN
  IF eleve = <<>> THEN [error |-> <<>>, ok |-> FALSE]
  ELSE IF a = <<>> THEN [error |-> <<OtherError("TypeError")>>, ok |-> FALSE]
  ELSE [error |-> <<>>, ok |-> eleve[1].ecoleId = a[1].ecoleId]

\* resource && resource[ownerField] === req.auth.userId
DefaultOwnerCheck(options, a, resourceId) ==
  LET ownerField == IF options.ownerField = "" THEN "userId" ELSE options.ownerField
      found == findByPk(options.model, resourceId)
  IN IF found.failed THEN [error |-> <<OtherError("SequelizeDatabaseError")>>, ok |-> FALSE]
     ELSE IF found.row = <<>> THEN [error |-> <<>>, ok |-> FALSE]
     ELSE IF a = <<>> THEN [error |-> <<OtherError("TypeError")>>, ok |-> FALSE]
     ELSE [error |-> <<>>, ok |-> found.row[1][ownerField] = a[1].userId]

\* the catch block of authorize
authorizeCatch(error) ==
  IF error.cls = "ErrorResponse" THEN Send(error.statusCode, error.code)
  ELSE Send(Num(500), "AUTHORIZATION_ERROR")

authorize(requiredRoles, options, a, params) ==
  LET resourceId == params[IF options.idParam = "" THEN "id" ELSE options.idParam] IN
  IF RoleRefused(requiredRoles, a) THEN Json(403, "FORBIDDEN")
  ELSE IF options.ownershipRequired
    THEN IF options.model = ""
           THEN authorizeCatch(ErrorResponse("500", NotANumber))
         ELSE LET check == IF options.isOwner # ""
                             THEN isOwnerCustomCheck(options.isOwner, a, resourceId)
                             ELSE DefaultOwnerCheck(options, a, resourceId)
              IN IF check.error # <<>> THEN authorizeCatch(check.error[1])
                 ELSE IF ~check.ok THEN Json(403, "OWNERSHIP_REQUIRED")
                 ELSE Pass(a)
  ELSE Pass(a)


(***************************************************************************)
(* The routes (Routes/api.js): authenticate, authorize(roles, options),    *)
(* the validation middleware when the route has a schema, the controller.  *)
(***************************************************************************)
Route(roles, options, schema, controller) ==
  [roles |-> roles, options |-> options, schema |-> schema, controller |-> controller]

\* authorize mounted with other options than those of the routes of api.js,
\* in front of a handler: ownership required with neither a model nor an
\* isOwner function, with an isOwner function alone, and with a model
Mounts(name) ==
  CASE name = "authorize([], { ownershipRequired: true })" ->
         Route({}, [NoOptions EXCEPT !.ownershipRequired = TRUE], "", "getUser")
    [] name = "authorize(['Teacher'], { ownershipRequired: true })" ->
         Route({"Teacher"}, [NoOptions EXCEPT !.ownershipRequired = TRUE], "", "getUser")
    [] name = "authorize([], { ownershipRequired: true, isOwner })" ->
         Route({}, [NoOptions EXCEPT !.ownershipRequired = TRUE,
                                     !.isOwner = "eleveOfSchool"], "", "getUser")
    [] name = "authorize([], { ownershipRequired: true, model: db.User })" ->
         Route({}, [NoOptions EXCEPT !.ownershipRequired = TRUE, !.model = "User"],
               "", "getUser")

Routes(name) ==
  CASE name = "GET /users/:id" ->
         Route({}, [NoOptions EXCEPT !.ownershipRequired = TRUE, !.model = "User",
                                     !.idParam = "id"], "", "getUser")
    [] name = "GET /classes" ->
         Route({"Administrator", "Teacher"}, NoOptions, "", "ClasseController.getAll")
    [] name = "GET /eleves" ->
         Route({"Administrator", "Teacher"}, NoOptions, "", "EleveController.getAll")
    [] name = "GET /eleves/:id" ->
         Route({"Administrator", "Teacher"}, NoOptions, "", "getEleve")
    [] name = "GET /notes/eleve/:eleveId" ->
         Route({"Administrator", "Teacher"},
               [NoOptions EXCEPT !.ownershipRequired = TRUE, !.model = "Eleve",
                                 !.idParam = "eleveId", !.ownerField = "ecoleId",
                                 !.isOwner = "eleveOfSchool"], "", "getNotesByEleve")
    [] name = "POST /moyennes" ->
         Route({"Teacher"}, NoOptions, "moyenneCreateSchema", "calculateMoyenne")
    [] name = "DELETE /users/:id" ->
         Route({"Administrator"}, NoOptions, "", "deleteUser")
    \* POST /login has no authenticate and no authorize in front of it
    [] name = "POST /login" ->
         Route({}, NoOptions, "loginSchema", "login")
    [] name = "POST /ecoles" ->
         Route({"Administrator"}, NoOptions, "ecoleCreateSchema", "createEcole")
    [] name = "GET /ecoles/:id" ->
         Route({"Administrator", "Teacher"}, NoOptions, "", "getEcole")
    [] name = "DELETE /ecoles/:id" ->
         Route({"Administrator"}, NoOptions, "", "deleteEcole")
    [] name = "DELETE /eleves/:id" ->
         Route({"Administrator"}, NoOptions, "", "deleteEleve")
    [] name = "GET /notes" ->
         Route({"Administrator", "Teacher"}, NoOptions, "", "getAllNotes")
    [] name = "POST /notes" ->
         Route({"Teacher"}, NoOptions, "noteCreateSchema", "createNote")
    [] name = "POST /resultats" ->
         Route({"Administrator"}, NoOptions, "resultatCreateSchema", "createResultat")
    [] name = "PUT /notes/:eleveId/:evaluationId/:composId" ->
         Route({"Teacher"},
               [NoOptions EXCEPT !.ownershipRequired = TRUE, !.model = "Eleve",
                                 !.idParam = "eleveId", !.ownerField = "ecoleId",
                                 !.isOwner = "eleveOfSchool"], "noteUpdateSchema", "updateNote")
    [] name = "PUT /moyennes/:eleveId/:composId" ->
         Route({"Teacher"},
               [NoOptions EXCEPT !.ownershipRequired = TRUE, !.model = "Eleve",
                                 !.idParam = "eleveId", !.ownerField = "ecoleId",
                                 !.isOwner = "eleveOfSchool"], "moyenneUpdateSchema", "updateMoyenne")
    [] name = "GET /users" ->
         Route({"Administrator"}, NoOptions, "", "UserController.getAll")
    [] name = "POST /users" ->
         Route({"Administrator"}, NoOptions, "userCreateSchema", "createUser")
    [] name = "PUT /users/:id" ->
         Route({}, [NoOptions EXCEPT !.ownershipRequired = TRUE, !.model = "User",
                                     !.idParam = "id"], "userUpdateSchema", "updateUser")
    [] OTHER -> Mounts(name)

NoParams == [id |-> <<>>, eleveId |-> <<>>]

Request(route, header, params, query, body) ==
  [route |-> route, header |-> header, params |-> params, query |-> query, body |-> body]

NoRequest == Request("GET /eleves/:id", <<>>, NoParams, NoQuery, NoBody)

\* a promise rejected outside any catch block: express 4 does not see it and
\* the request is never answered (the unhandledRejection hook logs it, and
\* exits in production); express 5 hands the error to the error handler
Rejections == {"ignored", "forwarded"}

\* the request arrives and the chain of its route starts
Receive(requests) ==
  /\ pc = "idle"
  /\ req' \in requests
  /\ pc' = "authenticate"
  /\ before' = moyennes
  /\ UNCHANGED <<env, locals, sqlQuery, users, eleves, classes, notes, moyennes, ecoles, resultats, tombs, auth, resp, trace>>

\* the exchange is over (answered, or abandoned by the client) and the
\* server waits for the next request
EndRequest ==
  /\ pc \in {"done", "hung"}
  /\ req' = NoRequest
  /\ pc' = "idle"
  /\ auth' = <<>>
  /\ resp' = <<>>
  /\ trace' = <<>>
  /\ before' = moyennes
  /\ UNCHANGED <<env, locals, sqlQuery, users, eleves, classes, notes, moyennes, ecoles, resultats, tombs>>

Middleware_NoReturn(name, o, nextPc) ==
  /\ resp' = IF o.act = "json" THEN Append(resp, Response(o.status, o.code, name, <<>>))
             ELSE resp
  /\ trace' = Append(trace, name)
  /\ pc' = nextPc
  /\ auth' = IF o.act = "next" THEN o.auth ELSE auth

\* the outcome o of the middleware `name`; next() continues at nextPc
Middleware(name, o, nextPc) ==
  IF o.act = "json"
    THEN /\ resp' = Append(resp, Response(o.status, o.code, name, <<>>))
         /\ trace' = Append(trace, name)
         /\ pc' = "done"
         /\ auth' = auth
  ELSE IF o.act = "next"
    THEN /\ resp' = resp
         /\ trace' = Append(trace, name)
         /\ pc' = nextPc
         /\ auth' = o.auth
  ELSE /\ \E x \in Rejections :
            IF x = "ignored"
              THEN /\ resp' = resp
                   /\ trace' = Append(trace, name)
                   /\ pc' = "hung"
              ELSE /\ resp' = Append(resp, errorHandler(OtherError("TypeError")))
                   /\ trace' = trace \o <<name, "errorHandler">>
                   /\ pc' = "done"
       /\ auth' = auth

Authenticate ==
  /\ pc = "authenticate"
  /\ Middleware("authenticate", authenticate(req.header, env), "authorize")
  /\ UNCHANGED <<env, locals, sqlQuery, users, eleves, classes, notes, moyennes, ecoles, resultats, tombs, req, before>>

Authorize ==
  /\ pc = "authorize"
  /\ Middleware("authorize",
                authorize(Routes(req.route).roles, Routes(req.route).options, auth, req.params),
                IF Routes(req.route).schema # "" THEN "validate" ELSE "controller")
  /\ UNCHANGED <<env, locals, sqlQuery, users, eleves, classes, notes, moyennes, ecoles, resultats, tombs, req, before>>

\* Validator.middleware(schema): next() or next(err)
Validate ==
  /\ pc = "validate"
  /\ LET err == validate(req.body, Routes(req.route).schema) IN
     IF err = <<>>
       THEN /\ resp' = resp
            /\ trace' = Append(trace, "validate")
            /\ pc' = "controller"
       ELSE /\ resp' = Append(resp, errorHandler(err[1]))
            /\ trace' = trace \o <<"validate", "errorHandler">>
            /\ pc' = "done"
  /\ UNCHANGED <<env, locals, sqlQuery, users, eleves, classes, notes, moyennes, ecoles, resultats, tombs, req, auth, before>>

\* a controller answers 200/201 itself ...
Answer(name, status, data) ==
  /\ resp' = Append(resp, Response(status, "", name, data))
  /\ trace' = Append(trace, name)
  /\ pc' = "done"

\* ... or passes an error to next(), which the error handler answers
Fail(name, err) ==
  /\ resp' = Append(resp, errorHandler(err))
  /\ trace' = trace \o <<name, "errorHandler">>
  /\ pc' = "done"

Controller(name) == pc = "controller" /\ Routes(req.route).controller = name

\* EleveController.getEleve
GetEleve ==
  /\ Controller("getEleve")
  /\ LET eleve == findByPk("Eleve", req.params.id) IN
     IF eleve.failed THEN Fail("getEleve", handleError(OtherError("SequelizeDatabaseError")))
     ELSE IF eleve.row = <<>> THEN Fail("getEleve", ErrorResponse("NOT_FOUND", Num(404)))
     ELSE Answer("getEleve", 200, eleve.row[1])
  /\ UNCHANGED <<env, locals, sqlQuery, users, eleves, classes, notes, moyennes, ecoles, resultats, tombs, req, auth, before>>

\* UserController.getUser
GetUser ==
  /\ Controller("getUser")
  /\ LET user == findByPk("User", req.params.id) IN
     IF user.failed THEN Fail("getUser", handleError(OtherError("SequelizeDatabaseError")))
     ELSE IF user.row = <<>> THEN Fail("getUser", ErrorResponse("NOT_FOUND", Num(404)))
     ELSE Answer("getUser", 200,
                 Selected(user.row[1],
                          [only |-> <<>>,
                           exclude |-> {"mdpasse", "deletedAt", "createdAt", "updatedAt"}]))
  /\ UNCHANGED <<env, locals, sqlQuery, users, eleves, classes, notes, moyennes, ecoles, resultats, tombs, req, auth, before>>


\* the body of a listing answer; rows are the stored rows behind the items
Listing(resPerPage, totalCount, rows, attributes) ==
  [count |-> Len(rows), totalCount |-> totalCount, resPerPage |-> resPerPage,
   items |-> [i \in 1..Len(rows) |-> Selected(rows[i], attributes)],
   rows |-> rows]

\* the where clause of the role: { ecoleId: user.ecoleId }
EcoleWhere(ecoleId) == [NoWhere EXCEPT !.ecoleId = <<Cond("eq", ecoleId, <<>>, <<>>)>>]

MergeRoleWhere_QueryWins(queryWhere, where) == Spread(where, queryWhere)

\* { ...apiFeatures.query.where, ...where }
MergeRoleWhere(queryWhere, where) == Spread(queryWhere, where)

\* getAll of ClasseController and EleveController: the listing of `model`
getAll(name, model, rows, searchableFields) ==
  LET resPerPage == ResPerPage(env)
      teacher == auth # <<>> /\ auth[1].userRole = "Teacher"
      user == IF auth = <<>> THEN <<>>
              ELSE findByPk("User", <<NumericId(auth[1].userId)>>).row
  IN IF teacher /\ (user = <<>> \/ user[1].ecoleId = <<>>)
       THEN Answer(name, 200, Listing(resPerPage, 0, <<>>, limitFields(NoQuery)))
     ELSE LET where == IF teacher THEN EcoleWhere(user[1].ecoleId) ELSE NoWhere
              features == APIFeatures(req.query, searchableFields, resPerPage)
              plan == [features EXCEPT !.where = MergeRoleWhere(features.where, where)]
          IN \E found \in findAll(plan, rows, Columns(model)) :
               IF found = <<>>
                 THEN Fail(name, handleError(OtherError("SequelizeDatabaseError")))
                 ELSE Answer(name, 200,
                             Listing(resPerPage, count(where, rows), found[1], plan.attributes))

ClasseGetAll ==
  /\ Controller("ClasseController.getAll")
  /\ getAll("ClasseController.getAll", "Classe", Rows(classes), {"libelle"})
  /\ UNCHANGED <<env, locals, sqlQuery, users, eleves, classes, notes, moyennes, ecoles, resultats, tombs, req, auth, before>>

EleveGetAll ==
  /\ Controller("EleveController.getAll")
  /\ getAll("EleveController.getAll", "Eleve", Rows(eleves), {"lastname", "firstname"})
  /\ UNCHANGED <<env, locals, sqlQuery, users, eleves, classes, notes, moyennes, ecoles, resultats, tombs, req, auth, before>>

\* NoteController.getNotesByEleve: no search(), where = { matriculEleve }
GetNotesByEleve ==
  /\ Controller("getNotesByEleve")
  /\ LET resPerPage == ResPerPage(env)
         where == [NoWhere EXCEPT !.matriculEleve =
                                    <<Cond("eq", req.params.eleveId[1].n, <<>>, <<>>)>>]
         features == APIFeatures(req.query, {}, resPerPage)
         plan == [features EXCEPT !.where = MergeRoleWhere(features.where, where)]
     IN \E found \in findAll(plan, NoteRows, Columns("Note")) :
          IF found = <<>>
            THEN Fail("getNotesByEleve", handleError(OtherError("SequelizeDatabaseError")))
            ELSE Answer("getNotesByEleve", 200,
                        Listing(resPerPage, count(where, NoteRows), found[1], plan.attributes))
  /\ UNCHANGED <<env, locals, sqlQuery, users, eleves, classes, notes, moyennes, ecoles, resultats, tombs, req, auth, before>>


(***************************************************************************)
(* MoyenneController.calculateMoyenne.  Numbers that the code divides are  *)
(* rationals [num, den] in lowest terms with den > 0.                      *)
(***************************************************************************)
RECURSIVE GCD(_, _)
GCD(a, b) == IF b = 0 THEN a ELSE GCD(b, a % b)

Abs(x) == IF x < 0 THEN -x ELSE x

Rat(n, d) ==
  LET g == GCD(Abs(n), Abs(d))
      sgn == IF d < 0 THEN -1 ELSE 1
  IN [num |-> sgn * (n \div g), den |-> sgn * (d \div g)]

RatAdd(a, b) == Rat(a.num * b.den + b.num * a.den, a.den * b.den)

RatMul(a, b) == Rat(a.num * b.num, a.den * b.den)

RatDiv(a, b) == Rat(a.num * b.den, a.den * b.num)

Zero == Rat(0, 1)

\* the coeficient of evaluation type ev (table evaluations): 1/2, 1, 3/2, ...
Coeficient(ev) == Rat(ev, 2)

WeightedTerm(n) == RatMul(Rat(n.note, 1), Coeficient(n.codeEva))

CoeficientTerm(n) == Coeficient(n.codeEva)

RECURSIVE Reduce(_, _, _)
\* rows.reduce((sum, row) => sum + term(row), acc), the term being the
\* weighted note or the coefficient alone
Reduce(weighted, rows, acc) ==
  IF rows = {} THEN acc
  ELSE LET r == CHOOSE x \in rows : TRUE
       IN Reduce(weighted, rows \ {r},
                 RatAdd(acc, IF weighted THEN WeightedTerm(r) ELSE CoeficientTerm(r)))

\* validate: { min: 0, max: 10 } of the models Note and Moyenne, on a
\* rational (the denominator is positive)
InGradeRange(r) == r.num >= 0 /\ r.num <= 10 * r.den

\* the weighted sum taken for the average: no division by the sum of the
\* coefficients
WeightedAverage_Undivided(found) ==
  Reduce(TRUE, found, Zero)

\* total / totalCoef, 0 when totalCoef === 0
WeightedAverage(found) ==
  LET total == Reduce(TRUE, found, Zero)
      totalCoef == Reduce(FALSE, found, Zero)
  IN IF totalCoef = Zero THEN Zero ELSE RatDiv(total, totalCoef)

\* Note.findAll({ where: { matriculEleve, codeCompo } })
NotesOf(matriculEleve, codeCompo) ==
  {n \in NoteRows : n.matriculEleve = matriculEleve /\ n.codeCompo = codeCompo}

\* a where clause with an undefined value: the finder throws (sequelize 5
\* and later) or compares the column with NULL and finds no row (before)
UndefinedInWhere == {"throws", "matchesNothing"}

CalculateMoyenne ==
  /\ Controller("calculateMoyenne")
  /\ LET name == "calculateMoyenne"
         err == validate(req.body, "moyenneCreateSchema")
         eleve == req.body.eleve
         compos == req.body.compos
         undefined == eleve = <<>> \/ compos = <<>>
     IN IF err # <<>>
          THEN Fail(name, handleError(err[1])) /\ moyennes' = moyennes
        ELSE \E u \in UndefinedInWhere :
          IF undefined /\ u = "throws"
            THEN Fail(name, handleError(OtherError("Error"))) /\ moyennes' = moyennes
          ELSE LET found == IF undefined THEN {} ELSE NotesOf(eleve[1], compos[1]) IN
               IF found = {}
                 THEN /\ Fail(name, ErrorResponse("NO_GRADES", Num(404)))
                      /\ moyennes' = moyennes
                 ELSE LET moyenne == WeightedAverage(found)
                          key == <<eleve[1], compos[1]>>
                          created == moyennes[key] = <<>>
                      IN /\ moyennes' = [moyennes EXCEPT ![key] = <<moyenne>>]
                         /\ Answer(name, IF created THEN 201 ELSE 200,
                                   [matriculEleve |-> eleve[1], codeCompo |-> compos[1],
                                    moyenne |-> moyenne])
  /\ UNCHANGED <<env, locals, sqlQuery, users, eleves, classes, notes, ecoles, resultats, tombs, req, auth, before>>


(***************************************************************************)
(* The initial states: a seeded database and an idle server.               *)
(***************************************************************************)
\* the school of the i-th row of a table seeded round robin
EcoleOf(i) == EcoleId(((i - 1) % NumEcoles) + 1)

NoteOf(m, ev, c) == (3 * ev + c) % 11

NoteKeys == Matricules \X Evas \X Compos

MoyenneKeys == Matricules \X Compos

Idle ==
  /\ req = NoRequest
  /\ pc = "idle"
  /\ auth = <<>>
  /\ resp = <<>>
  /\ trace = <<>>
  /\ sqlQuery = NewQuery
  /\ locals = <<>>
  /\ before = moyennes

\* every user exists, in any school
AnyUsers == {[u \in UserIds |-> <<UserRow(u, g[u])>>] : g \in [UserIds -> Ecoles]}

SeededUsers == [u \in UserIds |-> <<UserRow(u, EcoleOf(u))>>]

SeededEleves == [m \in Matricules |-> <<EleveRow(m, EcoleOf(m))>>]

SeededClasses == [i \in ClasseIds |-> <<ClasseRow(i, EcoleOf(i))>>]

SeededNotes == [k \in NoteKeys |-> <<NoteOf(k[1], k[2], k[3])>>]

NoMoyennes == [k \in MoyenneKeys |-> <<>>]

\* the keys a school can have: those of the seeded schools and a free one
EcoleKeys == {EcoleId(i) : i \in 1..(NumEcoles + 1)}

SeededEcoles ==
  [id \in EcoleKeys |->
     IF id \in Ecoles
       THEN <<EcoleRow(id, EcoleNameOf(CHOOSE i \in 1..NumEcoles : EcoleId(i) = id))>>
       ELSE <<>>]

Annees == {AnneeCode(i) : i \in 1..NumAnnees}

ResultatKeys == Matricules \X Annees

NoResultats == [k \in ResultatKeys |-> <<>>]

\* no row has been deleted yet
NoTombs == {}

(***************************************************************************)
(* SpecGate: the authorization gate in front of the routes that read one   *)
(* student, one user, or the notes of one student.                         *)
(***************************************************************************)
Schemes == {"Bearer", "Basic"}

\* the Authorization headers: none, a scheme alone, a scheme and an empty
\* token, a scheme and a token
Headers ==
  {<<>>, << <<"Bearer">> >>, << <<"Bearer", EmptyToken>> >>}
    \cup {<< <<sch, Token("valid", u)>> >> : sch \in Schemes, u \in 1..(NumUsers + 1)}
    \cup {<< <<"Bearer", Token(sig, 1)>> >> : sig \in {"expired", "malformed", "notBefore"}}

GateRequests ==
  {Request("GET /eleves/:id", h, [NoParams EXCEPT !.id = <<PathId(FALSE, m)>>], NoQuery, NoBody) :
     h \in Headers, m \in 1..(NumEleves + 1)}
    \cup {Request("GET /notes/eleve/:eleveId", h, [NoParams EXCEPT !.eleveId = <<PathId(FALSE, m)>>],
                  NoQuery, NoBody) : h \in Headers, m \in 1..(NumEleves + 1)}
    \cup {Request("GET /users/:id", h, [NoParams EXCEPT !.id = <<id>>], NoQuery, NoBody) :
            h \in Headers, id \in {NumericId(n) : n \in 1..(NumUsers + 1)} \cup {TextId}}

ReceiveGate == Receive(GateRequests)

InitGate ==
  /\ env \in [JWT_SECRET : BOOLEAN, RES_PER_PAGE : {<<>>}]
  /\ users \in AnyUsers
  /\ eleves = SeededEleves
  /\ classes = SeededClasses
  /\ notes = SeededNotes
  /\ moyennes = NoMoyennes
  /\ ecoles = SeededEcoles
  /\ resultats = NoResultats
  /\ tombs = NoTombs
  /\ Idle

NextGate ==
  \/ ReceiveGate
  \/ Authenticate
  \/ Authorize
  \/ GetEleve
  \/ GetUser
  \/ GetNotesByEleve
  \/ EndRequest

SpecGate == InitGate /\ [][NextGate]_vars


(***************************************************************************)
(* Properties of the gate (SpecGate).                                      *)
(***************************************************************************)
Controllers == {"getEleve", "getUser", "getNotesByEleve", "calculateMoyenne",
                "ClasseController.getAll", "EleveController.getAll"}

Ran(name) == \E i \in 1..Len(trace) : trace[i] = name

ControllerRan == \E i \in 1..Len(trace) : trace[i] \in Controllers

Over == pc \in {"done", "hung"}

RoleIs(role) == auth # <<>> /\ auth[1].userRole = role

\* the student the request names exists and belongs to another school than
\* the identity's
OtherSchoolEleve(id) ==
  /\ id # <<>> /\ id[1].n \in Matricules /\ eleves[id[1].n] # <<>>
  /\ auth # <<>> /\ eleves[id[1].n][1].ecoleId # auth[1].ecoleId

\* C5: a Teacher who requests (GET /eleves/:id) a student of another school
\* is answered 403 OWNERSHIP_REQUIRED and gets no student data, and an
\* Administrator making that request is answered 200 with the student.
C5_TeacherOtherSchoolRefused ==
  (Over /\ req.route = "GET /eleves/:id" /\ OtherSchoolEleve(req.params.id)) =>
     /\ RoleIs("Teacher") =>
          resp = <<Response(403, "OWNERSHIP_REQUIRED", "authorize", <<>>)>>
     /\ RoleIs("Administrator") =>
          resp = <<Response(200, "", "getEleve", eleves[req.params.id[1].n][1])>>

\* C6: on a route whose authorize requires ownership, a request by an
\* Administrator passes authorize and is never answered OWNERSHIP_REQUIRED,
\* whoever owns the resource.
C6_AdministratorBypasses ==
  (Ran("authorize") /\ Routes(req.route).options.ownershipRequired
     /\ RoleIs("Administrator") /\ req.params.id # <<TextId>>) =>
     /\ \A i \in 1..Len(resp) : resp[i].code # "OWNERSHIP_REQUIRED"
     /\ Over => ControllerRan

\* the gate succeeded for the request: the identity is a stored user, has a
\* required role, and passes the ownership check when one is required
GateSucceeded ==
  /\ auth # <<>>
  /\ authenticate(req.header, env) = Pass(auth)
  /\ authorize(Routes(req.route).roles, Routes(req.route).options, auth, req.params) = Pass(auth)

\* the order of the chain: authenticate, authorize, then the controller
GateOrder ==
  /\ Len(trace) >= 1 => trace[1] = "authenticate"
  /\ Len(trace) >= 2 =>
       trace[2] = "authorize" \/ (trace[2] = "errorHandler" /\ Len(trace) = 2)
  /\ \A i \in 1..Len(trace) : trace[i] \in Controllers => (i >= 3 /\ GateSucceeded)

C9_RoleCheck ==
  /\ \A name \in {"GET /eleves/:id", "GET /notes/eleve/:eleveId", "POST /moyennes",
                  "GET /classes", "GET /eleves"} :
       authorize(Routes(name).roles, Routes(name).options, <<>>, req.params)
         = Json(403, "FORBIDDEN")
  /\ (Len(trace) >= 2 /\ trace[2] = "authorize" /\ Routes(req.route).roles # {}) =>
       IF auth[1].userRole \notin Routes(req.route).roles
         THEN /\ resp = <<Response(403, "FORBIDDEN", "authorize", <<>>)>>
              /\ trace = <<"authenticate", "authorize">>
              /\ pc = "done"
         ELSE ~Routes(req.route).options.ownershipRequired =>
                /\ \A i \in 1..Len(resp) : resp[i].by # "authorize"
                /\ pc # "hung"
                /\ Over => ControllerRan

C9_Witness ==
  /\ req.route = "GET /notes/eleve/:eleveId"
  /\ RoleIs("OtherRole")
  /\ OtherSchoolEleve(req.params.eleveId)
  /\ resp = <<Response(403, "FORBIDDEN", "authorize", <<>>)>>

\* the Authorization header carries a bearer token: the scheme Bearer
\* followed by a non-empty token
CarriesBearerToken(header) ==
  /\ header # <<>>
  /\ Len(header[1]) >= 2
  /\ header[1][1] = "Bearer"
  /\ header[1][2] # EmptyToken

\* the Authorization header has a non-empty second word
HasSecondWord(header) ==
  header # <<>> /\ Len(header[1]) >= 2 /\ header[1][2] # EmptyToken

AuthRequired ==
  /\ resp = <<Response(401, "AUTH_REQUIRED", "authenticate", <<>>)>>
  /\ auth = <<>>
  /\ trace = <<"authenticate">>
  /\ pc = "done"

EcoleIdValues ==
  {<<>>} \cup {<<e>> : e \in Ecoles}
    \cup {<< <<"n", "e">> \o EcoleId(1) >>,
          << <<"i", "n">> \o EcoleId(1) \o <<",">> \o EcoleId(NumEcoles) >>,
          << <<"g", "t", "e", "1">> >>}

\* one more parameter next to ecoleId
OtherParameters ==
  {<<"page", <<>> >>,
   <<"page", << <<"2">> >> >>,
   <<"limit", << <<"1">> >> >>,
   <<"limit", << <<"-", "1">> >> >>,
   <<"keyword", << <<"c", "m">> >> >>,
   <<"keyword", << <<"a", "b", "e">> >> >>,
   <<"sort", << <<"e", "c", "o", "l", "e", "I", "d">> >> >>,
   <<"sort", << <<"-", "l", "i", "b", "e", "l", "l", "e">> >> >>,
   <<"fields", << <<"l", "i", "b", "e", "l", "l", "e">> >> >>,
   <<"fields", << <<"l", "a", "s", "t", "n", "a", "m", "e", ",", " ",
                    "e", "c", "o", "l", "e", "I", "d">> >> >>,
   <<"libelle", << LibelleOf(1) >> >>,
   <<"lastname", << <<"n", "e">> \o LastnameOf(1) >> >>}

Queries ==
  {[[NoQuery EXCEPT !.ecoleId = e] EXCEPT ![o[1]] = o[2]] :
     e \in EcoleIdValues, o \in OtherParameters}

ListRequests ==
  {Request(route, h, NoParams, q, NoBody) :
     route \in {"GET /classes", "GET /eleves"},
     h \in {<<>>} \cup {<< <<"Bearer", Token("valid", u)>> >> : u \in UserIds},
     q \in Queries}

ReceiveList == Receive(ListRequests)

\* the rows of both tables are in any school
InitList ==
  /\ env \in [JWT_SECRET : {TRUE}, RES_PER_PAGE : {<<>>, << <<"1">> >>}]
  /\ users = SeededUsers
  /\ \E g \in [1..Max2(NumClasses, NumEleves) -> Ecoles] :
       /\ classes = [i \in ClasseIds |-> <<ClasseRow(i, g[i])>>]
       /\ eleves = [m \in Matricules |-> <<EleveRow(m, g[m])>>]
  /\ notes = SeededNotes
  /\ moyennes = NoMoyennes
  /\ ecoles = SeededEcoles
  /\ resultats = NoResultats
  /\ tombs = NoTombs
  /\ Idle

NextList ==
  \/ ReceiveList
  \/ Authenticate
  \/ Authorize
  \/ ClasseGetAll
  \/ EleveGetAll
  \/ EndRequest

SpecList == InitList /\ [][NextList]_vars


(***************************************************************************)
(* Properties of the listings (SpecList).                                  *)
(***************************************************************************)
Listed == pc = "done" /\ Len(resp) = 1 /\ resp[1].status = 200 /\ ControllerRan

\* the table the route lists, and the fields its keyword is matched with
ListedRows == IF req.route = "GET /classes" THEN Rows(classes) ELSE Rows(eleves)

ListedModel == IF req.route = "GET /classes" THEN "Classe" ELSE "Eleve"

ListedSearchable ==
  IF req.route = "GET /classes" THEN {"libelle"} ELSE {"lastname", "firstname"}

\* what the query string alone selects from the table
UnscopedPages ==
  {f[1] : f \in findAll(APIFeatures(req.query, ListedSearchable, ResPerPage(env)),
                        ListedRows, Columns(ListedModel)) \ {<<>>}}

\* C7: every row of a class or student listing answered to a Teacher is of
\* the Teacher's school, whatever the query string; the listing answered to
\* an Administrator is the one the query string alone selects, from the rows
\* of every school.
C7_TeacherListingOwnSchool ==
  Listed =>
    /\ RoleIs("Teacher") =>
         /\ \A i \in 1..Len(resp[1].data.rows) :
              resp[1].data.rows[i].ecoleId = auth[1].ecoleId
         /\ resp[1].data.totalCount =
              Cardinality({r \in ListedRows : r.ecoleId = auth[1].ecoleId})
    /\ RoleIs("Administrator") =>
         /\ resp[1].data.rows \in UnscopedPages
         /\ resp[1].data.totalCount = Cardinality(ListedRows)

\* a Teacher asked for the rows of another school that has rows, and was
\* answered the rows of the Teacher's own school
C7_Witness ==
  /\ Listed
  /\ RoleIs("Teacher")
  /\ req.query.ecoleId # <<>>
  /\ req.query.ecoleId[1] \in Ecoles \ {auth[1].ecoleId}
  /\ \E r \in ListedRows : r.ecoleId = req.query.ecoleId[1]
  /\ Len(resp[1].data.rows) >= 1


(***************************************************************************)
(* SpecMoy: POST /moyennes.                                                *)
(***************************************************************************)
\* the bodies: each field absent or present; a student with notes and the
\* last student, who has none; an average inside and outside 0..10
Bodies ==
  {[matriculEleve |-> m, codeCompo |-> c, moyenne |-> v, eleve |-> e, compos |-> k] :
     m \in {<<>>, <<1>>, <<NumEleves>>}, c \in {<<>>, <<1>>}, v \in {<<>>, <<5>>, <<11>>},
     e \in {<<>>, <<1>>, <<NumEleves>>}, k \in {<<>>, <<1>>}}

MoyRequests ==
  {Request("POST /moyennes", h, NoParams, NoQuery, b) :
     h \in {<<>>} \cup {<< <<"Bearer", Token("valid", u)>> >> : u \in UserIds},
     b \in Bodies}

ReceiveMoy == Receive(MoyRequests)

\* student 1 has notes of any set of evaluation types in composition 1, the
\* other students have none; the pair (1, 1) has a stored average or not
InitMoy ==
  /\ env = [JWT_SECRET |-> TRUE, RES_PER_PAGE |-> <<>>]
  /\ users = SeededUsers
  /\ eleves = SeededEleves
  /\ classes = SeededClasses
  /\ \E S \in SUBSET Evas :
       notes = [k \in NoteKeys |->
                  IF k[1] = 1 /\ k[3] = 1 /\ k[2] \in S
                    THEN <<NoteOf(k[1], k[2], k[3])>> ELSE <<>>]
  /\ \E v \in {<<>>, <<Rat(5, 1)>>} : moyennes = [NoMoyennes EXCEPT ![<<1, 1>>] = v]
  /\ ecoles = SeededEcoles
  /\ resultats = NoResultats
  /\ tombs = NoTombs
  /\ Idle

NextMoy ==
  \/ ReceiveMoy
  \/ Authenticate
  \/ Authorize
  \/ Validate
  \/ CalculateMoyenne
  \/ EndRequest

SpecMoy == InitMoy /\ [][NextMoy]_vars

(***************************************************************************)
(* Properties of POST /moyennes (SpecMoy).                                 *)
(***************************************************************************)
\* calculateMoyenne has run for the request and the exchange is over
Computed == Over /\ Ran("calculateMoyenne")

\* the (student, composition) pairs the body names, under the names of the
\* schema (matriculEleve, codeCompo) or of the controller (eleve, compos)
NamedPairs ==
  {<<req.body.matriculEleve[1], req.body.codeCompo[1]>> :
     x \in {y \in {1} : req.body.matriculEleve # <<>> /\ req.body.codeCompo # <<>>}}
    \cup {<<req.body.eleve[1], req.body.compos[1]>> :
            x \in {y \in {1} : req.body.eleve # <<>> /\ req.body.compos # <<>>}}

\* C1: after calculateMoyenne for a pair that has notes, the stored average
\* of the pair is sum(note * coeficient) / sum(coeficient) over the notes of
\* the pair (0 when the coefficients sum to 0).
C1_StoresWeightedAverage ==
  Computed =>
    \A p \in NamedPairs :
      NotesOf(p[1], p[2]) # {} => moyennes[p] = <<WeightedAverage(NotesOf(p[1], p[2]))>>

\* C2: calculateMoyenne for a pair that has notes answers 201 exactly when
\* the pair had no stored average before the call and 200 otherwise, and a
\* call made when the stored average is already the weighted average (a
\* second call) leaves the table as it was.
C2_UpsertIdempotent ==
  Computed =>
    \A p \in NamedPairs :
      NotesOf(p[1], p[2]) # {} =>
        /\ Len(resp) = 1
        /\ resp[1].status = IF before[p] = <<>> THEN 201 ELSE 200
        /\ before[p] = <<WeightedAverage(NotesOf(p[1], p[2]))>> => moyennes = before

\* C3: calculateMoyenne for a pair without notes fails with NO_GRADES (404)
\* and leaves the stored averages as they were.
C3_NoGrades ==
  Computed =>
    \A p \in NamedPairs :
      NotesOf(p[1], p[2]) = {} =>
        /\ Len(resp) = 1
        /\ resp[1].status = 404
        /\ resp[1].data = [raised |-> "NO_GRADES"]
        /\ moyennes = before

\* C4: a POST /moyennes by a Teacher with a body the schema accepts ends with
\* 201 or 200 and the stored average of the pair the body names when the
\* pair has notes, and with NO_GRADES when it has none.
C4_AcceptedBodyComputes ==
  (Over /\ req.route = "POST /moyennes" /\ RoleIs("Teacher")
     /\ moyenneCreateSchema(req.body)) =>
    LET p == <<req.body.matriculEleve[1], req.body.codeCompo[1]>> IN
    /\ Len(resp) = 1
    /\ IF NotesOf(p[1], p[2]) # {}
         THEN /\ resp[1].status \in {200, 201}
              /\ moyennes[p] = <<WeightedAverage(NotesOf(p[1], p[2]))>>
         ELSE resp[1].data = [raised |-> "NO_GRADES"]

(***************************************************************************)
(* Deletion.  Schema.init gives every model paranoid: true unless its      *)
(* options say otherwise, and no model does: destroy() sets deletedAt and  *)
(* leaves the row in its table, and every finder of the model skips the    *)
(* rows whose deletedAt is set.  No DELETE statement is issued, so the     *)
(* ON DELETE rules of the foreign keys never apply.                        *)
(***************************************************************************)
Tombstone(model, row) == [model |-> model, row |-> row]

\* the primary key of a row
PrimaryKey(model, row) ==
  CASE model = "User" -> row.userId
    [] model = "Eleve" -> row.matricul
    [] model = "Ecole" -> row.ecoleId
    [] model = "Note" -> <<row.matriculEleve, row.codeEva, row.codeCompo>>
    [] model = "Moyenne" -> <<row.matriculEleve, row.codeCompo>>
    [] model = "Resultat" -> <<row.matriculEleve, row.anneeCode>>

\* the rows of the model that destroy() has marked
Tombs(model) == {t.row : t \in {x \in tombs : x.model = model}}

\* instance.destroy() of a paranoid model: UPDATE ... SET deleted_at
destroy(model, row) == tombs \cup {Tombstone(model, row)}

(***************************************************************************)
(* UserController.login and deleteUser.                                    *)
(***************************************************************************)
InternalErrorMessage == "Une erreur interne est survenue. Veuillez reessayer plus tard."

\* the body the error handler writes, in full: message is err.message, or
\* the fixed text above for a status of 500 and more, and error.details is
\* err.stack when NODE_ENV is 'development'; the stack names the line that
\* built the error.  express' final handler writes no such body.
errorHandlerBody(err, stack, message) ==
  LET r == errorHandler(err) IN
  IF r.by = "errorHandler"
    THEN [r EXCEPT !.data = [raised |-> err.code,
                             message |-> IF r.status >= 500 THEN InternalErrorMessage
                                         ELSE message,
                             details |-> IF env.NODE_ENV = "development"
                                           THEN <<stack>> ELSE <<>>]]
    ELSE [r EXCEPT !.data = [raised |-> err.code, message |-> "", details |-> <<>>]]

\* next(error) with the error built at the line `stack` with `message`
FailAt(name, err, stack, message) ==
  /\ resp' = Append(resp, errorHandlerBody(err, stack, message))
  /\ trace' = trace \o <<name, "errorHandler">>
  /\ pc' = "done"

\* this.model.findOne({ where: { username } }): << >> or << row >>
findOneUser(username) ==
  LET found == {r \in Rows(users) : r.username = username} IN
  IF found = {} THEN <<>> ELSE <<CHOOSE r \in found : TRUE>>

\* AuthMiddleware.generateToken(user): the error thrown, or the token
generateToken(user, e) ==
  IF ~e.JWT_SECRET
    \* new ErrorResponse(message, 500, {code: 'JWT_CONFIG_ERROR', ...})
    THEN [error |-> <<ErrorResponse("500", NotANumber)>>, token |-> EmptyToken]
    ELSE [error |-> <<>>, token |-> Token("valid", user.userId)]

\* the messages of the errors that login builds
BadCredentials == "Nom d'utilisateur ou mot de passe incorrect."

LoginFailed == "Erreur lors de la connexion de l'utilisateur."

login_DistinctErrors(body) ==
  LET err == validate(body, "loginSchema")
      user == IF err = <<>> THEN findOneUser(body.username[1]) ELSE <<>>
  IN IF err # <<>>
       THEN [error |-> <<handleError(err[1])>>, stack |-> "user.js:42",
             message |-> LoginFailed, user |-> <<>>]
     ELSE IF user = <<>>
       THEN [error |-> <<ErrorResponse("NOT_FOUND", Num(404))>>, stack |-> "user.js:273",
             message |-> "Utilisateur non trouve.", user |-> <<>>]
     ELSE IF ~bcryptCompare(body.password[1], user[1].password)
       THEN [error |-> <<ErrorResponse("INVALID_CREDENTIALS", Num(401))>>,
             stack |-> "user.js:280", message |-> BadCredentials, user |-> <<>>]
     ELSE [error |-> <<>>, stack |-> "", message |-> "", user |-> user]

\* login up to the update of lastLogin: the error passed to next() and the
\* line that built it, or the user found
login(body) ==
  LET err == validate(body, "loginSchema")
      user == IF err = <<>> THEN findOneUser(body.username[1]) ELSE <<>>
  IN IF err # <<>>
       THEN [error |-> <<handleError(err[1])>>, stack |-> "user.js:42",
             message |-> LoginFailed, user |-> <<>>]
     ELSE IF user = <<>>
       THEN [error |-> <<ErrorResponse("INVALID_CREDENTIALS", Num(401))>>,
             stack |-> "user.js:273", message |-> BadCredentials, user |-> <<>>]
     ELSE IF ~bcryptCompare(body.password[1], user[1].password)
       THEN [error |-> <<ErrorResponse("INVALID_CREDENTIALS", Num(401))>>,
             stack |-> "user.js:280", message |-> BadCredentials, user |-> <<>>]
     ELSE [error |-> <<>>, stack |-> "", message |-> "", user |-> user]

Login ==
  /\ Controller("login")
  /\ LET r == login(req.body) IN
     IF r.error # <<>>
       THEN FailAt("login", r.error[1], r.stack, r.message) /\ users' = users
     ELSE LET user == r.user[1]
              token == generateToken(user, env)
          IN /\ users' = [users EXCEPT ![user.userId] =
                                          <<[user EXCEPT !.lastLogin = <<"now">>]>>]
             /\ IF token.error # <<>>
                  THEN FailAt("login", handleError(token.error[1]),
                              "authMiddleware.js:241", "Configuration JWT invalide.")
                  ELSE Answer("login", 200, [token |-> token.token])
  /\ UNCHANGED <<env, locals, sqlQuery, eleves, classes, notes, moyennes, ecoles, resultats, tombs,
                 req, auth, before>>

\* UserController.deleteUser
DeleteUser ==
  /\ Controller("deleteUser")
  /\ LET user == findByPk("User", req.params.id) IN
     IF user.failed
       THEN /\ FailAt("deleteUser", handleError(OtherError("SequelizeDatabaseError")),
                      "user.js:42", "Erreur lors de la suppression de l'utilisateur.")
            /\ UNCHANGED <<users, tombs>>
     ELSE IF user.row = <<>>
       THEN /\ FailAt("deleteUser", ErrorResponse("NOT_FOUND", Num(404)), "user.js:238",
                      "Utilisateur non trouve pour la suppression.")
            /\ UNCHANGED <<users, tombs>>
     ELSE /\ users' = [users EXCEPT ![user.row[1].userId] = <<>>]
          /\ tombs' = destroy("User", user.row[1])
          /\ Answer("deleteUser", 200, <<>>)
  /\ UNCHANGED <<env, locals, sqlQuery, eleves, classes, notes, moyennes, ecoles, resultats, req, auth, before>>

(***************************************************************************)
(* SpecSession: POST /login, DELETE /users/:id and GET /users/:id.  The    *)
(* tokens Token("valid", u) were issued to user u by earlier logins (user  *)
(* ids are serial and never issued twice); u = NumUsers + 1 never existed. *)
(***************************************************************************)
SessionHeaders ==
  {<<>>} \cup {<< <<"Bearer", Token("valid", u)>> >> : u \in 1..(NumUsers + 1)}

UserRequests ==
  {Request(route, h, [NoParams EXCEPT !.id = <<id>>], NoQuery, NoBody) :
     route \in {"DELETE /users/:id", "GET /users/:id"}, h \in SessionHeaders,
     id \in {NumericId(n) : n \in 1..(NumUsers + 1)} \cup {TextId}}

\* usernames of the users and one that nobody has; passwords of users 1 and
\* 2, the empty string, or none
LoginBodies ==
  {[username |-> n, password |-> w] :
     n \in {<<>>} \cup {<<UsernameOf(u)>> : u \in 1..(NumUsers + 1)},
     w \in {<<>>, << <<>> >>, <<PasswordOf(1)>>, <<PasswordOf(2)>>}}

LoginRequests == {Request("POST /login", <<>>, NoParams, NoQuery, b) : b \in LoginBodies}

ReceiveSession == Receive(UserRequests)

\* POST /login enters its chain at the validation middleware
ReceiveLogin ==
  /\ pc = "idle"
  /\ req' \in LoginRequests
  /\ pc' = "validate"
  /\ before' = moyennes
  /\ UNCHANGED <<env, locals, sqlQuery, users, eleves, classes, notes, moyennes, ecoles, resultats, tombs,
                 auth, resp, trace>>

InitSession ==
  /\ env \in [JWT_SECRET : BOOLEAN, RES_PER_PAGE : {<<>>},
              NODE_ENV : {"production", "development"}]
  /\ users = SeededUsers
  /\ eleves = SeededEleves
  /\ classes = SeededClasses
  /\ notes = SeededNotes
  /\ moyennes = NoMoyennes
  /\ ecoles = SeededEcoles
  /\ resultats = NoResultats
  /\ tombs = NoTombs
  /\ Idle

NextSession ==
  \/ ReceiveSession
  \/ ReceiveLogin
  \/ Authenticate
  \/ Authorize
  \/ Validate
  \/ Login
  \/ DeleteUser
  \/ GetUser
  \/ EndRequest

SpecSession == InitSession /\ [][NextSession]_vars

(***************************************************************************)
(* Properties of the session routes (SpecSession).                         *)
(***************************************************************************)
\* the request carries the validly signed, unexpired token of user u
CarriesTokenOf(u) == ExtractToken(req.header) = <<Token("valid", u)>>

\* user u is not in the store: never created, or deleted
UserGone(u) == u \notin DOMAIN users \/ users[u] = <<>>

UserNotFound ==
  /\ resp = <<Response(401, "USER_NOT_FOUND", "authenticate", <<>>)>>
  /\ auth = <<>>
  /\ trace = <<"authenticate">>
  /\ pc = "done"

\* C11: on a server with a JWT secret, a request with the validly signed,
\* unexpired token of a user who is not in the store when authenticate runs
\* (never created, or deleted by an earlier request) is answered 401
\* USER_NOT_FOUND by authenticate and goes no further.
C11_GoneUserRefused ==
  \A u \in 1..(NumUsers + 1) :
    (env.JWT_SECRET /\ Ran("authenticate") /\ ~Ran("deleteUser")
       /\ CarriesTokenOf(u) /\ UserGone(u)) => UserNotFound

\* a request with the token of a user deleted earlier has been refused
C11_Witness ==
  \E u \in UserIds :
    /\ \E t \in tombs : t.model = "User" /\ t.row.userId = u
    /\ CarriesTokenOf(u) /\ ~Ran("deleteUser") /\ UserNotFound

DeclaredStatus(code) ==
  CASE code = "NOT_FOUND" -> 404
    [] code = "NO_GRADES" -> 404
    [] code = "INVALID_CREDENTIALS" -> 401

\* the responses written for an error that reached the error handler
ErrorAnswers == {i \in 1..Len(resp) : resp[i].by \in {"errorHandler", "finalhandler"}}

\* C15: an error raised with the code NOT_FOUND, NO_GRADES or
\* INVALID_CREDENTIALS is answered with its declared status and with
\* error.code equal to that code.
C15_DeclaredCodeInBody ==
  \A i \in ErrorAnswers :
    resp[i].data.raised \in {"NOT_FOUND", "NO_GRADES", "INVALID_CREDENTIALS"} =>
      /\ resp[i].status = DeclaredStatus(resp[i].data.raised)
      /\ resp[i].code = resp[i].data.raised

UnknownUsername(b) == loginSchema(b) /\ findOneUser(b.username[1]) = <<>>

WrongPassword(b) ==
  /\ loginSchema(b) /\ findOneUser(b.username[1]) # <<>>
  /\ ~bcryptCompare(b.password[1], findOneUser(b.username[1])[1].password)

CorrectPair(b) ==
  /\ loginSchema(b) /\ findOneUser(b.username[1]) # <<>>
  /\ bcryptCompare(b.password[1], findOneUser(b.username[1])[1].password)

\* the answer to a login that fails with body b in the current state
LoginAnswer(b) == errorHandlerBody(login(b).error[1], login(b).stack, login(b).message)

WithoutDetails(r) == [r EXCEPT !.data.details = <<>>]

LoginEnded == Over /\ Ran("login")

\* a token is given only to a correct username/password pair
TokenOnlyForCorrectPair ==
  (LoginEnded /\ \E i \in 1..Len(resp) : resp[i].by = "login") =>
    /\ CorrectPair(req.body)
    /\ resp = <<Response(200, "", "login", [token |-> Token("valid",
                            findOneUser(req.body.username[1])[1].userId)])>>

\* a login with an unknown username or a wrong password is answered 401,
\* raised as INVALID_CREDENTIALS with the one message
Refused401 ==
  (LoginEnded /\ (UnknownUsername(req.body) \/ WrongPassword(req.body))) =>
    /\ Len(resp) = 1
    /\ resp[1].status = 401
    /\ resp[1].data.raised = "INVALID_CREDENTIALS"
    /\ resp[1].data.message = BadCredentials

KeyTaken(model, key) ==
  \/ model = "Note" /\ notes[key] # <<>>
  \/ model = "Resultat" /\ resultats[key] # <<>>
  \/ model = "Ecole" /\ ecoles[key] # <<>>
  \/ \E r \in Tombs(model) : PrimaryKey(model, r) = key

\* Note.create({ matriculEleve, codeEva, codeCompo, note }): the name of the
\* error it throws, "" when the row is inserted.  The model validation
\* (allowNull: false, note min 0 max 10) runs before the INSERT, which the
\* foreign keys and the primary key can refuse.
NoteCreateError(matriculEleve, codeEva, codeCompo, note) ==
  IF matriculEleve = <<>> \/ codeEva = <<>> \/ codeCompo = <<>> \/ note = <<>>
    THEN "SequelizeValidationError"
  ELSE IF note[1] < 0 \/ note[1] > 10 THEN "SequelizeValidationError"
  ELSE IF <<matriculEleve[1], codeEva[1], codeCompo[1]>> \notin NoteKeys
    THEN "SequelizeForeignKeyConstraintError"
  ELSE IF KeyTaken("Note", <<matriculEleve[1], codeEva[1], codeCompo[1]>>)
    THEN "SequelizeUniqueConstraintError"
  ELSE ""

\* NoteController.createNote: the body is validated against
\* noteCreateSchema, then eleve, evaluation, compos and note are read from it
CreateNote ==
  /\ Controller("createNote")
  /\ LET name == "createNote"
         err == validate(req.body, "noteCreateSchema")
         matriculEleve == req.body.eleve
         codeEva == req.body.evaluation
         codeCompo == req.body.compos
         note == req.body.note
     IN IF err # <<>>
          THEN Fail(name, handleError(err[1])) /\ notes' = notes
        ELSE LET refused == NoteCreateError(matriculEleve, codeEva, codeCompo, note) IN
          IF refused # ""
            THEN Fail(name, handleError(OtherError(refused))) /\ notes' = notes
            ELSE /\ notes' = [notes EXCEPT
                                ![<<matriculEleve[1], codeEva[1], codeCompo[1]>>] = note]
                 /\ Answer(name, 201,
                           NoteRow(matriculEleve[1], codeEva[1], codeCompo[1], note[1]))
  /\ UNCHANGED <<env, locals, sqlQuery, users, eleves, classes, moyennes, ecoles, resultats, tombs,
                 req, auth, before>>

\* ResultatController.createResultat: the body is validated against
\* resultatCreateSchema, then eleve, annee, decision, rang and mga are read
\* from it.  findOrCreate with an undefined where value throws, or finds no
\* row and fails the notNull validation of its INSERT: it throws either way.
CreateResultat ==
  /\ Controller("createResultat")
  /\ LET name == "createResultat"
         err == validate(req.body, "resultatCreateSchema")
         matriculEleve == req.body.eleve
         anneeCode == req.body.annee
         values == ResultatRow(matriculEleve[1], anneeCode[1], req.body.decision[1],
                               req.body.rang[1], req.body.mga[1])
     IN IF err # <<>>
          THEN Fail(name, handleError(err[1])) /\ resultats' = resultats
        ELSE IF matriculEleve = <<>> \/ anneeCode = <<>>
          THEN \E u \in UndefinedInWhere :
                 /\ Fail(name, handleError(OtherError(IF u = "throws" THEN "Error"
                                                      ELSE "SequelizeValidationError")))
                 /\ resultats' = resultats
        ELSE LET key == <<matriculEleve[1], anneeCode[1]>> IN
          IF key \notin ResultatKeys
            THEN /\ Fail(name, handleError(OtherError("SequelizeForeignKeyConstraintError")))
                 /\ resultats' = resultats
          ELSE IF resultats[key] # <<>>
            \* found: resultat.update({ decision, rang, mga })
            THEN /\ resultats' = [resultats EXCEPT ![key] = <<values>>]
                 /\ Answer(name, 200, values)
          ELSE IF KeyTaken("Resultat", key)
            THEN /\ Fail(name, handleError(OtherError("SequelizeUniqueConstraintError")))
                 /\ resultats' = resultats
          ELSE /\ resultats' = [resultats EXCEPT ![key] = <<values>>]
               /\ Answer(name, 201, values)
  /\ UNCHANGED <<env, locals, sqlQuery, users, eleves, classes, notes, moyennes, ecoles, tombs,
                 req, auth, before>>

(***************************************************************************)
(* SpecWrite: POST /notes and POST /resultats.                             *)
(***************************************************************************)
\* the bodies of POST /notes: the key under the names of the schema
\* (matriculEleve, codeEva, codeCompo) and under the names the controller
\* reads (eleve, evaluation, compos); a note inside and outside 0..10
NoteBodies ==
  {[matriculEleve |-> m, codeEva |-> ev, codeCompo |-> c, note |-> n,
    eleve |-> e, evaluation |-> v, compos |-> k] :
     m \in {<<>>} \cup {<<i>> : i \in Matricules}, ev \in {<<i>> : i \in Evas},
     c \in {<<>>, <<1>>}, n \in {<<5>>, <<11>>},
     e \in {<<>>} \cup {<<i>> : i \in Matricules}, v \in {<<>>, <<1>>}, k \in {<<>>, <<1>>}}

\* the bodies of POST /resultats, likewise
ResultatBodies ==
  {[matriculEleve |-> m, anneeCode |-> a, decision |-> <<dec>>, rang |-> r, mga |-> <<7>>,
    eleve |-> e, annee |-> y] :
     m \in {<<>>} \cup {<<i>> : i \in Matricules}, a \in {<<AnneeCode(1)>>},
     dec \in {"Admis", "Refuse"}, r \in {<<>>, <<1>>, <<2>>},
     e \in {<<>>} \cup {<<i>> : i \in Matricules}, y \in {<<>>, <<AnneeCode(1)>>}}

WriteRequests ==
  {Request("POST /notes", h, NoParams, NoQuery, b) :
     h \in {<<>>} \cup {<< <<"Bearer", Token("valid", u)>> >> : u \in UserIds},
     b \in NoteBodies}
    \cup {Request("POST /resultats", h, NoParams, NoQuery, b) :
            h \in {<<>>} \cup {<< <<"Bearer", Token("valid", u)>> >> : u \in UserIds},
            b \in ResultatBodies}

ReceiveWrite == Receive(WriteRequests)

\* the notes of the first evaluation type are stored, the others are not;
\* student 1 has a result for the first school year or has none
InitWrite ==
  /\ env = [JWT_SECRET |-> TRUE, RES_PER_PAGE |-> <<>>]
  /\ users = SeededUsers
  /\ eleves = SeededEleves
  /\ classes = SeededClasses
  /\ notes = [k \in NoteKeys |-> IF k[2] = 1 THEN <<NoteOf(k[1], k[2], k[3])>> ELSE <<>>]
  /\ moyennes = NoMoyennes
  /\ ecoles = SeededEcoles
  /\ \E v \in {<<>>, <<ResultatRow(1, AnneeCode(1), "Passage", 3, 6)>>} :
       resultats = [NoResultats EXCEPT ![<<1, AnneeCode(1)>>] = v]
  /\ tombs = NoTombs
  /\ Idle

NextWrite ==
  \/ ReceiveWrite
  \/ Authenticate
  \/ Authorize
  \/ Validate
  \/ CreateNote
  \/ CreateResultat
  \/ EndRequest

SpecWrite == InitWrite /\ [][NextWrite]_vars

(***************************************************************************)
(* Properties of POST /notes and POST /resultats (SpecWrite).              *)
(***************************************************************************)
\* the Note key a body accepted by noteCreateSchema names
NamedNoteKey == <<req.body.matriculEleve[1], req.body.codeEva[1], req.body.codeCompo[1]>>

\* createNote is about to run for a body that noteCreateSchema accepts
CreatingNote == Controller("createNote") /\ noteCreateSchema(req.body)

\* the student the body names belongs to the school of the caller
OwnSchoolEleve(m) == eleves[m] # <<>> /\ auth # <<>> /\ eleves[m][1].ecoleId = auth[1].ecoleId

\* the status of the answer the step writes
AnsweredWith(status) == resp' # <<>> /\ resp'[Len(resp')].status = status

C14_DuplicateNoteConflict ==
  [][(CreatingNote /\ notes[NamedNoteKey] # <<>>) =>
        (notes' = notes /\ AnsweredWith(409))]_vars

\* the Result key a body accepted by resultatCreateSchema names
NamedResultatKey == <<req.body.matriculEleve[1], req.body.anneeCode[1]>>

\* C19: the upsert of a Result creates it (201) when its key has none and
\* otherwise overwrites decision, rank and annual average (200); either
\* way the key then holds exactly the values of this upsert, and no other
\* key changes.
C19_ResultatUpsert ==
  [][(Controller("createResultat") /\ resultatCreateSchema(req.body)) =>
        /\ resultats' =
             [resultats EXCEPT ![NamedResultatKey] =
                <<ResultatRow(NamedResultatKey[1], NamedResultatKey[2], req.body.decision[1],
                              req.body.rang[1], req.body.mga[1])>>]
        /\ AnsweredWith(IF resultats[NamedResultatKey] = <<>> THEN 201 ELSE 200)]_vars

(***************************************************************************)
(* EleveController.deleteEleve, EcoleController.createEcole, getEcole and  *)
(* deleteEcole, NoteController.getAllNotes.                                *)
(***************************************************************************)
\* EleveController.deleteEleve: findByPk, then eleve.destroy()
DeleteEleve ==
  /\ Controller("deleteEleve")
  /\ LET eleve == findByPk("Eleve", req.params.id) IN
     IF eleve.row = <<>>
       THEN /\ Fail("deleteEleve", ErrorResponse("NOT_FOUND", Num(404)))
            /\ UNCHANGED <<eleves, tombs>>
       ELSE /\ eleves' = [eleves EXCEPT ![eleve.row[1].matricul] = <<>>]
            /\ tombs' = destroy("Eleve", eleve.row[1])
            /\ Answer("deleteEleve", 200, <<>>)
  /\ UNCHANGED <<env, locals, sqlQuery, users, classes, notes, moyennes, ecoles, resultats, req, auth, before>>

\* EcoleController.deleteEcole: findByPk, then ecole.destroy()
DeleteEcole ==
  /\ Controller("deleteEcole")
  /\ LET ecole == findByPk("Ecole", req.params.id) IN
     IF ecole.row = <<>>
       THEN /\ Fail("deleteEcole", ErrorResponse("NOT_FOUND", Num(404)))
            /\ UNCHANGED <<ecoles, tombs>>
       ELSE /\ ecoles' = [ecoles EXCEPT ![ecole.row[1].ecoleId] = <<>>]
            /\ tombs' = destroy("Ecole", ecole.row[1])
            /\ Answer("deleteEcole", 200, <<>>)
  /\ UNCHANGED <<env, locals, sqlQuery, users, eleves, classes, notes, moyennes, resultats, req, auth, before>>

\* EcoleController.getEcole
GetEcole ==
  /\ Controller("getEcole")
  /\ LET ecole == findByPk("Ecole", req.params.id) IN
     IF ecole.row = <<>> THEN Fail("getEcole", ErrorResponse("NOT_FOUND", Num(404)))
     ELSE Answer("getEcole", 200, ecole.row[1])
  /\ UNCHANGED <<env, locals, sqlQuery, users, eleves, classes, notes, moyennes, ecoles, resultats, tombs,
                 req, auth, before>>

\* Ecole.create({ ecoleId, ecoleName, iep, ville }): the name of the error
\* it throws, "" when the row is inserted.  ecoleId is the primary key and
\* ecoleName is unique; both indexes cover the soft-deleted rows.
EcoleCreateError(ecoleId, ecoleName) ==
  IF ecoleId = <<>> \/ ecoleName = <<>> THEN "SequelizeValidationError"
  ELSE IF ~IsEcoleId(ecoleId[1]) THEN "SequelizeValidationError"
  ELSE IF KeyTaken("Ecole", ecoleId[1])
    THEN "SequelizeUniqueConstraintError"
  ELSE IF \E r \in Rows(ecoles) \cup Tombs("Ecole") : r.ecoleName = ecoleName[1]
    THEN "SequelizeUniqueConstraintError"
  ELSE ""

\* EcoleController.createEcole
CreateEcole ==
  /\ Controller("createEcole")
  /\ LET name == "createEcole"
         err == validate(req.body, "ecoleCreateSchema")
         ecoleId == req.body.ecoleId
         ecoleName == req.body.ecoleName
     IN IF err # <<>>
          THEN Fail(name, handleError(err[1])) /\ ecoles' = ecoles
        ELSE LET refused == EcoleCreateError(ecoleId, ecoleName) IN
          IF refused # ""
            THEN Fail(name, handleError(OtherError(refused))) /\ ecoles' = ecoles
            ELSE /\ ecoles' = [ecoles EXCEPT ![ecoleId[1]] =
                                               <<EcoleRow(ecoleId[1], ecoleName[1])>>]
                 /\ Answer(name, 201, EcoleRow(ecoleId[1], ecoleName[1]))
  /\ UNCHANGED <<env, locals, sqlQuery, users, eleves, classes, notes, moyennes, resultats, tombs,
                 req, auth, before>>

\* NoteController.getAllNotes: Note.count(), then filter, sort, limitFields
\* and paginate (no search()); the included student is joined LEFT OUTER,
\* so a note whose student is deleted is listed with eleveDetail null
GetAllNotes ==
  /\ Controller("getAllNotes")
  /\ LET resPerPage == ResPerPage(env)
         plan == APIFeatures(req.query, {}, resPerPage)
     IN \E found \in findAll(plan, NoteRows, Columns("Note")) :
          IF found = <<>>
            THEN Fail("getAllNotes", handleError(OtherError("SequelizeDatabaseError")))
            ELSE Answer("getAllNotes", 200,
                        Listing(resPerPage, count(NoWhere, NoteRows), found[1], plan.attributes))
  /\ UNCHANGED <<env, locals, sqlQuery, users, eleves, classes, notes, moyennes, ecoles, resultats, tombs,
                 req, auth, before>>

(***************************************************************************)
(* SpecDelete: DELETE /eleves/:id, DELETE /ecoles/:id, POST /ecoles,       *)
(* GET /ecoles/:id and GET /notes, by nobody, the Administrator (user 1)   *)
(* or the Teacher (user 2).                                                *)
(***************************************************************************)
DeleteHeaders == {<<>>} \cup {<< <<"Bearer", Token("valid", u)>> >> : u \in 1..2}

\* the bodies of POST /ecoles: the key of a seeded school or the free one,
\* a seeded name, a new one or one that is too short, each possibly absent
EcoleBodies ==
  {[ecoleId |-> i, ecoleName |-> n, ville |-> <<>>] :
     i \in {<<>>} \cup {<<k>> : k \in EcoleKeys},
     n \in {<<>>, << <<"L", "y">> >>} \cup {<<EcoleNameOf(k)>> : k \in 1..(NumEcoles + 1)}}

DeleteRequests ==
  {Request("DELETE /eleves/:id", h, [NoParams EXCEPT !.id = <<PathId(FALSE, m)>>],
           NoQuery, NoBody) : h \in DeleteHeaders, m \in 1..(NumEleves + 1)}
    \cup {Request(route, h, [NoParams EXCEPT !.id = <<PathId(FALSE, i)>>], NoQuery, NoBody) :
            route \in {"DELETE /ecoles/:id", "GET /ecoles/:id"}, h \in DeleteHeaders,
            i \in 1..(NumEcoles + 2)}
    \cup {Request("POST /ecoles", h, NoParams, NoQuery, b) :
            h \in DeleteHeaders, b \in EcoleBodies}
    \cup {Request("GET /notes", h, NoParams, NoQuery, NoBody) : h \in DeleteHeaders}

ReceiveDelete == Receive(DeleteRequests)

\* every student has notes, an average and a result
InitDelete ==
  /\ env = [JWT_SECRET |-> TRUE, RES_PER_PAGE |-> <<>>]
  /\ users = SeededUsers
  /\ eleves = SeededEleves
  /\ classes = SeededClasses
  /\ notes = SeededNotes
  /\ moyennes = [k \in MoyenneKeys |-> <<Rat(5, 1)>>]
  /\ ecoles = SeededEcoles
  /\ resultats = [k \in ResultatKeys |-> <<ResultatRow(k[1], k[2], "Admis", 1, 7)>>]
  /\ tombs = NoTombs
  /\ Idle

NextDelete ==
  \/ ReceiveDelete
  \/ Authenticate
  \/ Authorize
  \/ Validate
  \/ DeleteEleve
  \/ DeleteEcole
  \/ CreateEcole
  \/ GetEcole
  \/ GetAllNotes
  \/ EndRequest

SpecDelete == InitDelete /\ [][NextDelete]_vars

(***************************************************************************)
(* Properties of validation and deletion (SpecDelete).                     *)
(***************************************************************************)
\* the stored data
Stored == <<users, eleves, classes, notes, moyennes, ecoles, resultats, tombs>>

\* C13: a create request whose payload fails the schema of its route is
\* answered 400 VALIDATION_ERROR by the validation step, the controller
\* does not run and nothing is stored.
C13_InvalidPayload400 ==
  [][(pc = "validate" /\ ~SchemaAccepts(Routes(req.route).schema, req.body)) =>
        /\ AnsweredWith(400)
        /\ resp'[Len(resp')].data.raised = "VALIDATION_ERROR"
        /\ pc' = "done"
        /\ Stored' = Stored]_vars

\* student s was deleted
EleveDeleted(s) == \E r \in Tombs("Eleve") : r.matricul = s

\* the rows a listing answer returned
ReturnedRows ==
  IF Over /\ Ran("getAllNotes") /\ resp # <<>> /\ resp[Len(resp)].status = 200
    THEN {resp[Len(resp)].data.rows[i] : i \in 1..Len(resp[Len(resp)].data.rows)}
    ELSE {}

\* C16: once student s is deleted, no Note, Average or Result of s is
\* stored, and no listing of the notes returns a Note of s.
C16_DeleteEleveCascades ==
  \A s \in Matricules :
    (eleves[s] = <<>> \/ EleveDeleted(s)) =>
       /\ \A k \in NoteKeys : k[1] = s => notes[k] = <<>>
       /\ \A k \in MoyenneKeys : k[1] = s => moyennes[k] = <<>>
       /\ \A k \in ResultatKeys : k[1] = s => resultats[k] = <<>>
       /\ \A r \in ReturnedRows : r.matriculEleve # s

\* the school the request names is stored and has at least one user
EcoleWithUsers ==
  /\ req.params.id # <<>>
  /\ findByPk("Ecole", req.params.id).row # <<>>
  /\ \E u \in Rows(users) : u.ecoleId = EcoleId(req.params.id[1].n)

\* C17: deleteEcole for a school that has a user fails with an error
\* answer and leaves the school and the users stored, not deleted.
C17_DeleteEcoleRestricted ==
  [][(Controller("deleteEcole") /\ EcoleWithUsers) =>
        /\ resp' # <<>> /\ resp'[Len(resp')].status >= 400
        /\ ecoles' = ecoles /\ users' = users /\ tombs' = tombs]_vars

\* the body names the key of a school that was deleted, with a name that no
\* stored school has
RecreatesDeletedEcole ==
  /\ ecoleCreateSchema(req.body)
  /\ ecoles[req.body.ecoleId[1]] = <<>>
  /\ \E r \in Tombs("Ecole") : r.ecoleId = req.body.ecoleId[1]
  /\ \A r \in Rows(ecoles) : r.ecoleName # req.body.ecoleName[1]

\* C18: the deletion of a school is a hard delete: its key is free again,
\* so a later create of a school with that key stores it and is answered
\* 201.
C18_HardDeleteFreesKey ==
  [][(Controller("createEcole") /\ RecreatesDeletedEcole) =>
        /\ AnsweredWith(201)
        /\ ecoles'[req.body.ecoleId[1]] =
             <<EcoleRow(req.body.ecoleId[1], req.body.ecoleName[1])>>]_vars

(***************************************************************************)
(* The APIFeatures chain, one method at a time: the controller constructs  *)
(* the instance from request.query and calls search(), filter(), sort(),   *)
(* limitFields() and paginate(resPerPage) on it.                           *)
(***************************************************************************)
\* the searchable fields the controller passes to the constructor
SearchableFields == {"lastname", "firstname"}

\* values of a filter parameter: the operator forms, and plain values
LastnameValues ==
  {<<>>,
     <<<<"g", "t", "e", "1", "8">>>>,
     <<<<"g", "t", "1", "8">>>>,
     <<<<"l", "t", "e", "1", "8">>>>,
     <<<<"l", "t", "1", "8">>>>,
     <<<<"i", "n", " ", "T", "e", "a", "c", "h", "e", "r", ",", "A", "d", "m", "i", "n", "i", "s", "t", "r", "a", "t", "o", "r">>>>,
     <<<<"n", "e", "A", "r", "c", "h", "i", "v", "e", "d">>>>,
     <<<<"M", "a", "r", "t", "i", "n">>>>,
     <<<<"T", "e", "a", "c", "h", "e", "r">>>>,
     <<<<"A", "b", "e", "1">>>>}

LibelleValues ==
  {<<>>,
     <<<<"C", "M", "1">>>>,
     <<<<"A", "d", "m", "i", "n", "i", "s", "t", "r", "a", "t", "o", "r">>>>}

PageValues ==
  {<<>>,
     <<<<"0">>>>,
     <<<<"-", "1">>>>,
     <<<<"2">>>>,
     <<<<"a", "b", "c">>>>}

LimitValues ==
  {<<>>,
     <<<<"5", "0", "0", "0">>>>,
     <<<<"1", "0", "0", "0">>>>,
     <<<<"0">>>>,
     <<<<"-", "5">>>>,
     <<<<"a", "b", "c">>>>,
     <<<<"3">>>>}

QueryStrings ==
  {[NoQuery EXCEPT !.lastname = a, !.libelle = b, !.page = p, !.limit = l] :
     a \in LastnameValues, b \in LibelleValues, p \in PageValues, l \in LimitValues}

QueryRequests == {Request("GET /eleves", <<>>, NoParams, q, NoBody) : q \in QueryStrings}

\* new APIFeatures(model, request.query, { searchableFields })
ReceiveQuery ==
  /\ pc = "idle"
  /\ req' \in QueryRequests
  /\ sqlQuery' = NewQuery
  /\ pc' = "search"
  /\ before' = moyennes
  /\ UNCHANGED <<env, locals, users, eleves, classes, notes, moyennes, ecoles, resultats, tombs,
                 auth, resp, trace>>

\* a method of the chain sets its part of this.query and returns this
Chained(name, query, nextPc) ==
  /\ pc = name
  /\ sqlQuery' = query
  /\ trace' = Append(trace, name)
  /\ pc' = nextPc
  /\ UNCHANGED <<env, locals, users, eleves, classes, notes, moyennes, ecoles, resultats, tombs,
                 req, auth, resp, before>>

Search ==
  Chained("search",
          [sqlQuery EXCEPT !.keyword = search(req.query, SearchableFields),
                           !.searchable = SearchableFields], "filter")

Filter ==
  Chained("filter", [sqlQuery EXCEPT !.where = Spread(sqlQuery.where, filter(req.query))],
          "sort")

Sort == Chained("sort", [sqlQuery EXCEPT !.order = sort(req.query)], "limitFields")

LimitFields ==
  Chained("limitFields", [sqlQuery EXCEPT !.attributes = <<limitFields(req.query)>>],
          "paginate")

Paginate ==
  Chained("paginate",
          [sqlQuery EXCEPT !.window = <<paginate(req.query, ResPerPage(env))>>], "done")

(***************************************************************************)
(* SpecQuery: the chain on the query strings above.                        *)
(***************************************************************************)
\* the default page size is 10, or the positive one of RES_PER_PAGE
InitQuery ==
  /\ env \in [JWT_SECRET : {TRUE},
              RES_PER_PAGE : {<<>>, << <<"1">> >>, << <<"2", "0", "0", "0">> >>}]
  /\ users = SeededUsers
  /\ eleves = SeededEleves
  /\ classes = SeededClasses
  /\ notes = SeededNotes
  /\ moyennes = NoMoyennes
  /\ ecoles = SeededEcoles
  /\ resultats = NoResultats
  /\ tombs = NoTombs
  /\ Idle

NextQuery ==
  \/ ReceiveQuery
  \/ Search
  \/ Filter
  \/ Sort
  \/ LimitFields
  \/ Paginate
  \/ EndRequest

SpecQuery == InitQuery /\ [][NextQuery]_vars

(***************************************************************************)
(* Properties of the query builder (SpecQuery).                            *)
(***************************************************************************)
\* filter() has run on the query string of the request
Filtered == Ran("filter")

\* the predicate filter() stored for parameter k
Predicate(k) == sqlQuery.where[k]

\* parameter k of the query string has this value
HasValue(k, v) == req.query[k] = <<v>>

\* C21: filter() turns gte18 into >= 18 (gt, lte, lt likewise), the value
\* 'in Teacher,Administrator' into membership in {Teacher, Administrator}
\* and neArchived into 'not equal to Archived'.
C21_OperatorForms ==
  Filtered =>
    /\ HasValue("lastname", <<"g", "t", "e", "1", "8">>) =>
         Predicate("lastname") = <<Cond("gte", <<>>, <<18>>, <<>>)>>
    /\ HasValue("lastname", <<"g", "t", "1", "8">>) =>
         Predicate("lastname") = <<Cond("gt", <<>>, <<18>>, <<>>)>>
    /\ HasValue("lastname", <<"l", "t", "e", "1", "8">>) =>
         Predicate("lastname") = <<Cond("lte", <<>>, <<18>>, <<>>)>>
    /\ HasValue("lastname", <<"l", "t", "1", "8">>) =>
         Predicate("lastname") = <<Cond("lt", <<>>, <<18>>, <<>>)>>
    /\ HasValue("lastname", <<"n", "e", "A", "r", "c", "h", "i", "v", "e", "d">>) =>
         /\ Predicate("lastname") # <<>>
         /\ \A v \in {<<"A", "r", "c", "h", "i", "v", "e", "d">>, <<"T", "e", "a", "c", "h", "e", "r">>, <<"M", "a", "r", "t", "i", "n">>} :
              CondHolds(v, Predicate("lastname")[1]) <=> v # <<"A", "r", "c", "h", "i", "v", "e", "d">>
    /\ HasValue("lastname", <<"i", "n", " ", "T", "e", "a", "c", "h", "e", "r", ",", "A", "d", "m", "i", "n", "i", "s", "t", "r", "a", "t", "o", "r">>) =>
         /\ Predicate("lastname") # <<>>
         /\ \A v \in {<<"A", "r", "c", "h", "i", "v", "e", "d">>, <<"T", "e", "a", "c", "h", "e", "r">>, <<"A", "d", "m", "i", "n", "i", "s", "t", "r", "a", "t", "o", "r">>, <<" ", "T", "e", "a", "c", "h", "e", "r">>} :
              CondHolds(v, Predicate("lastname")[1])
                <=> v \in {<<"T", "e", "a", "c", "h", "e", "r">>, <<"A", "d", "m", "i", "n", "i", "s", "t", "r", "a", "t", "o", "r">>}

\* the operator tokens of the query syntax
OperatorTokens ==
  {<<"g", "t", "e">>, <<"g", "t">>, <<"l", "t", "e">>, <<"l", "t">>, <<"i", "n">>, <<"n", "e">>}

\* the value begins with an operator token
CarriesOperator(v) ==
  \E t \in OperatorTokens : Len(v) >= Len(t) /\ SubSeq(v, 1, Len(t)) = t

\* C22: a parameter whose value carries no operator token yields the
\* exact-equality predicate on the whole value, and every parameter of the
\* query string has its own predicate in the where clause (logical AND).
C22_PlainValueEquality ==
  Filtered =>
    \A k \in FilterKeys :
      (req.query[k] # <<>> /\ ~CarriesOperator(req.query[k][1])) =>
         Predicate(k) = <<Cond("eq", req.query[k][1], <<>>, <<>>)>>

\* paginate() has run on the query string of the request
Paginated == Ran("paginate") /\ sqlQuery.window # <<>>

\* the number a parameter of the query string parses to, << >> when the
\* parameter is absent or parseInt gives NaN
Parsed(k) == parseInt(req.query[k])

\* C23 as stated: page >= 1 (a page that is 0, negative or unparseable
\* becomes 1), limit <= 1000 (5000 becomes 1000; an absent or unparseable
\* limit becomes the default page size), offset = (page - 1) * limit.
C23_PageAndLimit ==
  Paginated =>
    LET w == sqlQuery.window[1] IN
    /\ w.page >= 1
    /\ (Parsed("page") = <<>> \/ Parsed("page")[1] <= 0) => w.page = 1
    /\ w.limit <= MaxLimit
    /\ (Parsed("limit") # <<>> /\ Parsed("limit")[1] >= MaxLimit) => w.limit = MaxLimit
    /\ Parsed("limit") = <<>> => w.limit = ResPerPage(env)
    /\ w.offset = (w.page - 1) * w.limit

\* C23, amended: the default page size is capped at 1000 like any other
\* limit, and a limit of 0 takes the default as well.
C23_PageAndCappedLimit ==
  Paginated =>
    LET w == sqlQuery.window[1] IN
    /\ w.page >= 1
    /\ (Parsed("page") = <<>> \/ Parsed("page")[1] <= 0) => w.page = 1
    /\ (Parsed("page") # <<>> /\ Parsed("page")[1] >= 1) => w.page = Parsed("page")[1]
    /\ w.limit <= MaxLimit
    /\ (Parsed("limit") # <<>> /\ Parsed("limit")[1] >= MaxLimit) => w.limit = MaxLimit
    /\ (Parsed("limit") = <<>> \/ Parsed("limit")[1] = 0) =>
         w.limit = Min2(ResPerPage(env), MaxLimit)
    /\ w.offset = (w.page - 1) * w.limit

\* page=0 and limit=5000 were paginated to page 1, limit 1000, offset 0
C23_Witness ==
  /\ Paginated
  /\ req.query.page = << <<"0">> >>
  /\ req.query.limit = << <<"5", "0", "0", "0">> >>
  /\ sqlQuery.window[1] = [page |-> 1, limit |-> 1000, offset |-> 0]

\* C30: the window of paginate has 1 <= limit <= 1000 and offset >= 0,
\* for every query string and every positive default page size.
C30_PositiveWindow ==
  (Paginated /\ ResPerPage(env) > 0) =>
    LET w == sqlQuery.window[1] IN
    /\ 1 <= w.limit /\ w.limit <= MaxLimit
    /\ w.offset >= 0

(***************************************************************************)
(* SpecMount: authorize as a middleware factory, mounted with the options  *)
(* of Mounts in front of getUser.                                          *)
(***************************************************************************)
MountNames ==
  {"authorize([], { ownershipRequired: true })",
   "authorize(['Teacher'], { ownershipRequired: true })",
   "authorize([], { ownershipRequired: true, isOwner })",
   "authorize([], { ownershipRequired: true, model: db.User })"}

MountRequests ==
  {Request(route, h, [NoParams EXCEPT !.id = <<id>>], NoQuery, NoBody) :
     route \in MountNames,
     h \in {<<>>} \cup {<< <<"Bearer", Token("valid", u)>> >> : u \in 1..(NumUsers + 1)},
     id \in {NumericId(n) : n \in 1..(NumUsers + 1)} \cup {TextId}}

ReceiveMount == Receive(MountRequests)

InitMount ==
  /\ env = [JWT_SECRET |-> TRUE, RES_PER_PAGE |-> <<>>]
  /\ users \in AnyUsers
  /\ eleves = SeededEleves
  /\ classes = SeededClasses
  /\ notes = SeededNotes
  /\ moyennes = NoMoyennes
  /\ ecoles = SeededEcoles
  /\ resultats = NoResultats
  /\ tombs = NoTombs
  /\ Idle

NextMount ==
  \/ ReceiveMount
  \/ Authenticate
  \/ Authorize
  \/ GetUser
  \/ EndRequest

SpecMount == InitMount /\ [][NextMount]_vars

(***************************************************************************)
(* Properties of authorize's configuration check (SpecMount).              *)
(***************************************************************************)
\* ownership is required and neither a model nor an isOwner function is set
OwnershipUnconfigured(options) ==
  options.ownershipRequired /\ options.model = "" /\ options.isOwner = ""

\* C24: when authorize runs with ownership required and neither a model
\* nor a custom predicate (and the role check passes), the request is
\* answered 500 AUTH_CONFIG_ERROR by authorize and no controller runs.
C24_ConfigError500 ==
  (/\ Over /\ Ran("authorize")
   /\ OwnershipUnconfigured(Routes(req.route).options)
   /\ ~RoleRefused(Routes(req.route).roles, auth)) =>
     /\ resp = <<Response(500, "AUTH_CONFIG_ERROR", "authorize", <<>>)>>
     /\ ~Ran("getUser")

(***************************************************************************)
(* Requests in flight together.  Node runs one handler at a time and       *)
(* switches at every await, so a handler is a sequence of steps, each from *)
(* one await to the next, and the steps of the calls interleave.  Here     *)
(* req, pc, resp, trace and locals are indexed by the call; a call has     *)
(* passed authenticate and authorize and stands at the validation          *)
(* middleware of its route.                                                *)
(***************************************************************************)
Calls == 1..NumCalls

\* the local variables of a handler: the notes it read, the average it
\* computed; fresh is history, TRUE while no note of the pair the call
\* names has been written since the call began
NoLocals == [found |-> {}, moyenne |-> Zero, fresh |-> TRUE]

\* the bodies of POST /moyennes that the schema accepts, for a student with
\* notes and for the last student, and one that names the pair as the
\* controller reads it
RaceMoyRequests ==
  {Request("POST /moyennes", <<>>, NoParams, NoQuery,
           [matriculEleve |-> <<m>>, codeCompo |-> <<1>>, moyenne |-> <<5>>,
            eleve |-> <<>>, compos |-> <<>>]) : m \in {1, NumEleves}}
    \cup {Request("POST /moyennes", <<>>, NoParams, NoQuery,
                  [matriculEleve |-> <<>>, codeCompo |-> <<>>, moyenne |-> <<5>>,
                   eleve |-> <<1>>, compos |-> <<1>>])}

\* PUT /notes/:eleveId/:evaluationId/:composId with a note of 10 or of 11
RaceNoteRequests ==
  {Request("PUT /notes/:eleveId/:evaluationId/:composId", <<>>,
           [eleveId |-> <<PathId(FALSE, k[1])>>, evaluationId |-> <<PathId(FALSE, k[2])>>,
            composId |-> <<PathId(FALSE, 1)>>],
           NoQuery, [note |-> <<n>>]) :
     k \in {<<1, NumEvas>>, <<NumEleves, 1>>}, n \in {10, 11}}

\* PUT /moyennes/:eleveId/:composId with an average of 10 or of 11; the
\* path has no parameter named eleve or compos
RaceUpdateRequests ==
  {Request("PUT /moyennes/:eleveId/:composId", <<>>,
           [eleveId |-> <<PathId(FALSE, 1)>>, composId |-> <<PathId(FALSE, 1)>>,
            eleve |-> <<>>, compos |-> <<>>],
           NoQuery, [moyenne |-> <<n>>]) : n \in {10, 11}}

\* POST /notes for the last student with a note of 10 or of 11, the key
\* under the names of the schema
RaceCreateRequests ==
  {Request("POST /notes", <<>>, NoParams, NoQuery,
           [matriculEleve |-> <<NumEleves>>, codeEva |-> <<1>>, codeCompo |-> <<1>>,
            note |-> <<n>>, eleve |-> <<>>, evaluation |-> <<>>, compos |-> <<>>]) :
     n \in {10, 11}}

RaceRequests ==
  RaceMoyRequests \cup RaceNoteRequests \cup RaceUpdateRequests \cup RaceCreateRequests

\* the call answers and ends
Ends(p, response, last) ==
  /\ resp' = [resp EXCEPT ![p] = Append(@, response)]
  /\ trace' = [trace EXCEPT ![p] = @ \o last]
  /\ pc' = [pc EXCEPT ![p] = "done"]

\* the call goes on to its next await
Awaits(p, name, nextPc) ==
  /\ resp' = resp
  /\ trace' = [trace EXCEPT ![p] = Append(@, name)]
  /\ pc' = [pc EXCEPT ![p] = nextPc]

\* a request arrives on a free call
RaceBegin(p) ==
  /\ pc[p] = "idle"
  /\ \E r \in RaceRequests : req' = [req EXCEPT ![p] = r]
  /\ pc' = [pc EXCEPT ![p] = "validate"]
  /\ locals' = [locals EXCEPT ![p] = NoLocals]
  /\ UNCHANGED <<env, sqlQuery, users, eleves, classes, notes, moyennes, ecoles, resultats,
                 tombs, auth, resp, trace, before>>

\* Validator.middleware(schema) of the call's route
RaceValidate(p) ==
  /\ pc[p] = "validate"
  /\ LET err == validate(req[p].body, Routes(req[p].route).schema) IN
     IF err = <<>> THEN Awaits(p, "validate", "controller")
     ELSE Ends(p, errorHandler(err[1]), <<"validate", "errorHandler">>)
  /\ UNCHANGED <<env, sqlQuery, locals, users, eleves, classes, notes, moyennes, ecoles,
                 resultats, tombs, req, auth, before>>

\* MoyenneController.calculateMoyenne, from one await to the next: the
\* validation and the call of Note.findAll; its result and the call of
\* findOrCreate; the SELECT of findOrCreate; its INSERT, which the primary
\* key refuses when the row has appeared meanwhile (findOrCreate then reads
\* the row and reports created = false); record.update.  The model
\* validates moyenne before it is written.
CalculateMoyenneStep(p) ==
  /\ req[p].route = "POST /moyennes"
  /\ LET name == "calculateMoyenne"
         eleve == req[p].body.eleve
         compos == req[p].body.compos
         undefined == eleve = <<>> \/ compos = <<>>
         key == <<eleve[1], compos[1]>>
         row == [matriculEleve |-> eleve[1], codeCompo |-> compos[1],
                 moyenne |-> locals[p].moyenne]
         fails(err) == /\ Ends(p, errorHandler(err), <<name, "errorHandler">>)
                       /\ UNCHANGED <<moyennes, locals>>
     IN CASE pc[p] = "controller" ->
               LET err == validate(req[p].body, "moyenneCreateSchema") IN
               IF err # <<>> THEN fails(handleError(err[1]))
               ELSE Awaits(p, name, "findAll") /\ UNCHANGED <<moyennes, locals>>
          [] pc[p] = "findAll" ->
               \E u \in UndefinedInWhere :
                 IF undefined /\ u = "throws" THEN fails(handleError(OtherError("Error")))
                 ELSE LET found == IF undefined THEN {} ELSE NotesOf(eleve[1], compos[1]) IN
                      IF found = {} THEN fails(ErrorResponse("NO_GRADES", Num(404)))
                      ELSE /\ locals' = [locals EXCEPT ![p].found = found,
                                                       ![p].moyenne = WeightedAverage(found)]
                           /\ Awaits(p, "findAll", "findOrCreate")
                           /\ moyennes' = moyennes
          [] pc[p] = "findOrCreate" ->
               /\ Awaits(p, "findOrCreate", IF moyennes[key] = <<>> THEN "create" ELSE "update")
               /\ UNCHANGED <<moyennes, locals>>
          [] pc[p] = "create" ->
               IF ~InGradeRange(locals[p].moyenne)
                 THEN fails(handleError(OtherError("SequelizeValidationError")))
               ELSE IF moyennes[key] # <<>>
                 THEN Awaits(p, "create", "update") /\ UNCHANGED <<moyennes, locals>>
                 ELSE /\ moyennes' = [moyennes EXCEPT ![key] = <<locals[p].moyenne>>]
                      /\ Ends(p, Response(201, "", name, row), <<"create", name>>)
                      /\ locals' = locals
          [] pc[p] = "update" ->
               IF ~InGradeRange(locals[p].moyenne)
                 THEN fails(handleError(OtherError("SequelizeValidationError")))
                 ELSE /\ moyennes' = [moyennes EXCEPT ![key] = <<locals[p].moyenne>>]
                      /\ Ends(p, Response(200, "", name, row), <<"update", name>>)
                      /\ locals' = locals
          [] OTHER -> FALSE
  /\ UNCHANGED <<env, sqlQuery, users, eleves, classes, notes, ecoles, resultats, tombs,
                 req, auth, before>>

\* the Note key the path of the call names
PathNoteKey(p) ==
  <<req[p].params.eleveId[1].n, req[p].params.evaluationId[1].n, req[p].params.composId[1].n>>

\* NoteController.updateNote: the validation and the call of Note.update
\* (which validates note against min 0, max 10 of the model); the UPDATE
\* and the answer
UpdateNoteStep(p) ==
  /\ req[p].route = "PUT /notes/:eleveId/:evaluationId/:composId"
  /\ LET name == "updateNote"
         note == req[p].body.note
         key == PathNoteKey(p)
         fails(err) == /\ Ends(p, errorHandler(err), <<name, "errorHandler">>)
                       /\ UNCHANGED <<notes, locals>>
     IN CASE pc[p] = "controller" ->
               LET err == validate(req[p].body, "noteUpdateSchema") IN
               IF err # <<>> THEN fails(handleError(err[1]))
               ELSE IF note[1] < 0 \/ note[1] > 10
                 THEN fails(handleError(OtherError("SequelizeValidationError")))
               ELSE Awaits(p, name, "update") /\ UNCHANGED <<notes, locals>>
          [] pc[p] = "update" ->
               IF key \notin DOMAIN notes \/ notes[key] = <<>>
                 THEN fails(ErrorResponse("NOT_FOUND", Num(404)))
                 ELSE /\ notes' = [notes EXCEPT ![key] = note]
                      /\ Ends(p, Response(200, "", name, NoteRow(key[1], key[2], key[3], note[1])),
                              <<"update", name>>)
                      /\ locals' =
                           [q \in Calls |->
                              IF /\ pc[q] # "idle" /\ req[q].route = "POST /moyennes"
                                 /\ req[q].body.matriculEleve = <<key[1]>>
                                 /\ req[q].body.codeCompo = <<key[3]>>
                                THEN [locals[q] EXCEPT !.fresh = FALSE] ELSE locals[q]]
          [] OTHER -> FALSE
  /\ UNCHANGED <<env, sqlQuery, users, eleves, classes, moyennes, ecoles, resultats, tombs,
                 req, auth, before>>

\* NoteController.createNote: the validation and the call of Note.create
\* with the key read from body.eleve, body.evaluation and body.compos; the
\* INSERT and the answer
CreateNoteStep(p) ==
  /\ req[p].route = "POST /notes"
  /\ LET name == "createNote"
         matriculEleve == req[p].body.eleve
         codeEva == req[p].body.evaluation
         codeCompo == req[p].body.compos
         note == req[p].body.note
         fails(err) == /\ Ends(p, errorHandler(err), <<name, "errorHandler">>)
                       /\ notes' = notes
     IN CASE pc[p] = "controller" ->
               LET err == validate(req[p].body, "noteCreateSchema") IN
               IF err # <<>> THEN fails(handleError(err[1]))
               ELSE Awaits(p, name, "create") /\ notes' = notes
          [] pc[p] = "create" ->
               LET refused == NoteCreateError(matriculEleve, codeEva, codeCompo, note) IN
               IF refused # "" THEN fails(handleError(OtherError(refused)))
               ELSE /\ notes' = [notes EXCEPT
                                   ![<<matriculEleve[1], codeEva[1], codeCompo[1]>>] = note]
                    /\ Ends(p, Response(201, "", name,
                                        NoteRow(matriculEleve[1], codeEva[1], codeCompo[1],
                                                note[1])),
                            <<"create", name>>)
          [] OTHER -> FALSE
  /\ UNCHANGED <<env, sqlQuery, locals, users, eleves, classes, moyennes, ecoles, resultats,
                 tombs, req, auth, before>>

\* MoyenneController.updateMoyenne: the validation and the call of
\* Moyenne.update (which validates moyenne against min 0, max 10 of the
\* model) with the pair read from params.eleve and params.compos; the
\* UPDATE and the answer
UpdateMoyenneStep(p) ==
  /\ req[p].route = "PUT /moyennes/:eleveId/:composId"
  /\ LET name == "updateMoyenne"
         eleve == req[p].params.eleve
         compos == req[p].params.compos
         moyenne == req[p].body.moyenne
         undefined == eleve = <<>> \/ compos = <<>>
         key == <<eleve[1].n, compos[1].n>>
         fails(err) == /\ Ends(p, errorHandler(err), <<name, "errorHandler">>)
                       /\ moyennes' = moyennes
     IN CASE pc[p] = "controller" ->
               LET err == validate(req[p].body, "moyenneUpdateSchema") IN
               IF err # <<>> THEN fails(handleError(err[1]))
               ELSE IF moyenne[1] < 0 \/ moyenne[1] > 10
                 THEN fails(handleError(OtherError("SequelizeValidationError")))
               ELSE Awaits(p, name, "update") /\ moyennes' = moyennes
          [] pc[p] = "update" ->
               \E u \in UndefinedInWhere :
                 IF undefined /\ u = "throws" THEN fails(handleError(OtherError("Error")))
                 ELSE IF undefined \/ key \notin DOMAIN moyennes \/ moyennes[key] = <<>>
                   THEN fails(ErrorResponse("NOT_FOUND", Num(404)))
                 ELSE /\ moyennes' = [moyennes EXCEPT ![key] = <<Rat(moyenne[1], 1)>>]
                      /\ Ends(p, Response(200, "", name,
                                          [matriculEleve |-> key[1], codeCompo |-> key[2],
                                           moyenne |-> moyenne[1]]),
                              <<"update", name>>)
          [] OTHER -> FALSE
  /\ UNCHANGED <<env, sqlQuery, locals, users, eleves, classes, notes, ecoles, resultats,
                 tombs, req, auth, before>>

(***************************************************************************)
(* SpecRace: NumCalls requests to POST /moyennes and PUT /notes/... in     *)
(* flight together.                                                        *)
(***************************************************************************)
\* student 1 has a note of every evaluation type in every composition (the
\* seeded notes, or all 10), the other students have none; the
\* pair (1, 1) has a stored average or not
InitRace ==
  /\ env = [JWT_SECRET |-> TRUE, RES_PER_PAGE |-> <<>>]
  /\ users = SeededUsers
  /\ eleves = SeededEleves
  /\ classes = SeededClasses
  /\ \E n \in {<<>>, <<10>>} :
       notes = [k \in NoteKeys |->
                  IF k[1] # 1 THEN <<>>
                  ELSE IF n = <<>> THEN <<NoteOf(k[1], k[2], k[3])>> ELSE n]
  /\ \E v \in {<<>>, <<Rat(5, 1)>>} : moyennes = [NoMoyennes EXCEPT ![<<1, 1>>] = v]
  /\ ecoles = SeededEcoles
  /\ resultats = NoResultats
  /\ tombs = NoTombs
  /\ req = [p \in Calls |-> NoRequest]
  /\ pc = [p \in Calls |-> "idle"]
  /\ auth = <<>>
  /\ resp = [p \in Calls |-> <<>>]
  /\ trace = [p \in Calls |-> <<>>]
  /\ sqlQuery = NewQuery
  /\ locals = [p \in Calls |-> NoLocals]
  /\ before = moyennes

NextRace ==
  \E p \in Calls :
    \/ RaceBegin(p)
    \/ RaceValidate(p)
    \/ CalculateMoyenneStep(p)
    \/ UpdateNoteStep(p)
    \/ CreateNoteStep(p)
    \/ UpdateMoyenneStep(p)

SpecRace == InitRace /\ [][NextRace]_vars

(***************************************************************************)
(* Properties of the calls in flight together.                             *)
(***************************************************************************)
\* call p asked for the average of student m in composition c
ComputesPair(p, m, c) ==
  /\ pc[p] # "idle"
  /\ req[p].route = "POST /moyennes"
  /\ req[p].body.matriculEleve = <<m>>
  /\ req[p].body.codeCompo = <<c>>

Completed(p) == pc[p] = "done"

Reports(p, status) == Completed(p) /\ resp[p][1].status = status

C27_NoStaleAverage ==
  \A k \in MoyenneKeys :
    (/\ \A p \in Calls : Completed(p)
     /\ NotesOf(k[1], k[2]) # {}
     /\ \E p \in Calls : ComputesPair(p, k[1], k[2]) /\ locals[p].fresh)
      => moyennes[k] = <<WeightedAverage(NotesOf(k[1], k[2]))>>

UserSummary(user) ==
  [userId |-> user.userId, username |-> user.username, userRole |-> user.userRole,
   ecoleId |-> user.ecoleId, lastLogin |-> user.lastLogin]

\* UserController.getAll: the options name excludeFields, which APIFeatures
\* does not read, so its own defaultExcludedAttributes apply
UserGetAll ==
  /\ Controller("UserController.getAll")
  /\ LET name == "UserController.getAll"
         resPerPage == ResPerPage(env)
         userCount == count(NoWhere, Rows(users))
         plan == APIFeatures(req.query, {"username", "userRole"}, resPerPage)
     IN \E found \in findAll(plan, Rows(users), Columns("User")) :
          IF found = <<>>
            THEN Fail(name, handleError(OtherError("SequelizeDatabaseError")))
            ELSE Answer(name, 200, Listing(resPerPage, userCount, found[1], plan.attributes))
  /\ UNCHANGED <<env, locals, sqlQuery, users, eleves, classes, notes, moyennes, ecoles,
                 resultats, tombs, req, auth, before>>

\* the user ids given so far, deleted users included
UsedUserIds == {u \in UserIds : users[u] # <<>>} \cup {r.userId : r \in Tombs("User")}

\* the next value of the autoIncrement key user_id
NextUserId == IF UsedUserIds = {} THEN 1
              ELSE 1 + CHOOSE u \in UsedUserIds : \A v \in UsedUserIds : v <= u

\* username is unique, among the deleted users too
UsernameTaken(username, userId) ==
  \E r \in Rows(users) \cup Tombs("User") : r.username = username /\ r.userId # userId

\* UserController.createUser: the school is read from body.ecole; User.create
\* hashes the password (beforeCreate)
CreateUser ==
  /\ Controller("createUser")
  /\ LET name == "createUser"
         err == validate(req.body, "userCreateSchema")
         ecoleId == req.body.ecole
         user == [userId |-> NextUserId, username |-> req.body.username[1],
                  password |-> bcryptHash(req.body.password[1]),
                  userRole |-> req.body.userRole[1], ecoleId |-> ecoleId[1],
                  lastLogin |-> <<>>, createdAt |-> NextUserId]
     IN IF err # <<>> THEN Fail(name, handleError(err[1])) /\ users' = users
        ELSE IF ecoleId = <<>> \/ ecoleId[1] \notin DOMAIN ecoles \/ ecoles[ecoleId[1]] = <<>>
          THEN Fail(name, ErrorResponse("NOT_FOUND", Num(404))) /\ users' = users
        ELSE IF UsernameTaken(user.username, 0)
          THEN /\ Fail(name, handleError(OtherError("SequelizeUniqueConstraintError")))
               /\ users' = users
        ELSE /\ NextUserId \in UserIds
             /\ users' = [users EXCEPT ![NextUserId] = <<user>>]
             /\ Answer(name, 201, UserSummary(user))
  /\ UNCHANGED <<env, locals, sqlQuery, eleves, classes, notes, moyennes, ecoles, resultats,
                 tombs, req, auth, before>>

\* UserController.updateUser: username, password and userRole are read from
\* the body, the school from body.ecole; user.update hashes a changed
\* password (beforeUpdate)
UpdateUser ==
  /\ Controller("updateUser")
  /\ LET name == "updateUser"
         err == validate(req.body, "userUpdateSchema")
         user == findByPk("User", req.params.id)
         ecoleId == req.body.ecole
         updateData == {f \in {"username", "password", "userRole"} : req.body[f] # <<>>}
                         \cup (IF ecoleId # <<>> THEN {"ecoleId"} ELSE {})
         updated == [f \in DOMAIN user.row[1] |->
                       IF f \notin updateData THEN user.row[1][f]
                       ELSE IF f = "password" THEN bcryptHash(req.body.password[1])
                       ELSE IF f = "ecoleId" THEN ecoleId[1]
                       ELSE req.body[f][1]]
     IN IF err # <<>> THEN Fail(name, handleError(err[1])) /\ users' = users
        ELSE IF user.failed
          THEN Fail(name, handleError(OtherError("SequelizeDatabaseError"))) /\ users' = users
        ELSE IF user.row = <<>>
          THEN Fail(name, ErrorResponse("NOT_FOUND", Num(404))) /\ users' = users
        ELSE IF ecoleId # <<>> /\ ecoleId[1] # <<>>
                /\ (ecoleId[1] \notin DOMAIN ecoles \/ ecoles[ecoleId[1]] = <<>>)
          THEN Fail(name, ErrorResponse("NOT_FOUND", Num(404))) /\ users' = users
        ELSE IF updateData = {}
          THEN /\ Answer(name, 200, [message |-> "Aucune donnee fournie pour la mise a jour."])
               /\ users' = users
        ELSE IF "username" \in updateData /\ UsernameTaken(updated.username, updated.userId)
          THEN /\ Fail(name, handleError(OtherError("SequelizeUniqueConstraintError")))
               /\ users' = users
        ELSE /\ users' = [users EXCEPT ![updated.userId] = <<updated>>]
             /\ Answer(name, 200, UserSummary(updated))
  /\ UNCHANGED <<env, locals, sqlQuery, eleves, classes, notes, moyennes, ecoles, resultats,
                 tombs, req, auth, before>>

\* a body of the user routes
UserBody(username, password, userRole, ecoleId, ecole) ==
  [username |-> username, password |-> password, userRole |-> userRole,
   ecoleId |-> ecoleId, ecole |-> ecole]

Secret == <<"s", "e", "c", "r", "e", "t">>

NewUsername == <<"u", "s", "r", "9">>

\* POST /users: the four keys of the schema, or the school under the name
\* the controller reads
UserCreateBodies ==
  {UserBody(<<NewUsername>>, <<Secret>>, <<"Teacher">>, e[1], e[2]) :
     e \in {<< <<EcoleId(1)>>, <<>> >>, << <<>>, <<EcoleId(1)>> >>}}

\* PUT /users/:id: a new role, a role that does not exist, a new school
\* under either name, a new password, the username of user 1
UserUpdateBodies ==
  {UserBody(<<>>, <<>>, <<r>>, <<>>, <<>>) : r \in {"Administrator", "Teacher", "Director"}}
    \cup {UserBody(<<>>, <<>>, <<>>, <<EcoleId(NumEcoles)>>, <<>>),
          UserBody(<<>>, <<>>, <<>>, <<>>, <<EcoleId(NumEcoles)>>),
          UserBody(<<>>, <<Secret>>, <<>>, <<>>, <<>>),
          UserBody(<<UsernameOf(1)>>, <<>>, <<>>, <<>>, <<>>)}

\* the fields= projections of GET /users
FieldsValues ==
  {<<>>, << <<"p", "a", "s", "s", "w", "o", "r", "d">> >>,
   << <<"u", "s", "e", "r", "n", "a", "m", "e">> >>,
   << <<"u", "s", "e", "r", "I", "d", ",", "p", "a", "s", "s", "w", "o", "r", "d">> >>}

\* the requests carry no token, or a token of a user: the tokens were
\* issued before the first of the requests
UsersHeaders == {<<>>} \cup {<< <<"Bearer", Token("valid", u)>> >> : u \in UserIds}

UsersRequests ==
  {Request("GET /users", h, NoParams, [NoQuery EXCEPT !.fields = f], NoBody) :
     h \in UsersHeaders, f \in FieldsValues}
    \cup {Request("GET /users/:id", h, [NoParams EXCEPT !.id = <<NumericId(u)>>], NoQuery, NoBody) :
            h \in UsersHeaders, u \in UserIds}
    \cup {Request("POST /users", h, NoParams, NoQuery, b) :
            h \in UsersHeaders, b \in UserCreateBodies}
    \cup {Request("PUT /users/:id", h, [NoParams EXCEPT !.id = <<NumericId(u)>>], NoQuery, b) :
            h \in UsersHeaders, u \in UserIds, b \in UserUpdateBodies}

ReceiveUsers == Receive(UsersRequests)

InitUsers ==
  /\ env = [JWT_SECRET |-> TRUE, RES_PER_PAGE |-> <<>>]
  /\ users = SeededUsers
  /\ eleves = SeededEleves
  /\ classes = SeededClasses
  /\ notes = SeededNotes
  /\ moyennes = NoMoyennes
  /\ ecoles = SeededEcoles
  /\ resultats = NoResultats
  /\ tombs = NoTombs
  /\ Idle

NextUsers ==
  \/ ReceiveUsers
  \/ Authenticate
  \/ Authorize
  \/ Validate
  \/ UserGetAll
  \/ GetUser
  \/ CreateUser
  \/ UpdateUser
  \/ EndRequest

SpecUsers == InitUsers /\ [][NextUsers]_vars

(***************************************************************************)
(* Properties of the user endpoints (SpecUsers).                           *)
(***************************************************************************)
UserEndpoints == {"UserController.getAll", "getUser", "createUser", "updateUser"}

\* the response r of a user endpoint carries the password attribute of a
\* user, which holds the hash
CarriesHash(r) ==
  /\ r.by \in UserEndpoints
  /\ IF r.by = "UserController.getAll"
       THEN \E i \in 1..Len(r.data.items) : "password" \in DOMAIN r.data.items[i]
       ELSE "password" \in DOMAIN r.data

\* C28: no response of the user endpoints (list, get by id, create, update)
\* contains a user's password hash, whatever the query parameters.
C28_NoPasswordHash ==
  \A i \in 1..Len(resp) : ~CarriesHash(resp[i])


\* the identity of the stored user whose token the request carries
StoredIdentity ==
  LET user == users[ExtractToken(req.header)[1].userId][1] IN
  <<[userId |-> user.userId, userRole |-> user.userRole, ecoleId |-> user.ecoleId]>>

\* C29: authenticate attaches the role and the school stored for the user
\* when the request is made, and authorize decides on them: a request passes
\* the roles of its route only with the stored role, and is refused 403
\* FORBIDDEN without it, whatever the role was when the token was issued.
C29_StoredRoleAndSchool ==
  [][/\ (pc = "authenticate" /\ pc' = "authorize") => auth' = StoredIdentity
     /\ (pc = "authorize" /\ pc' \in {"validate", "controller"})
          => ~RoleRefused(Routes(req.route).roles, StoredIdentity)
     /\ (pc = "authorize" /\ RoleRefused(Routes(req.route).roles, StoredIdentity))
          => /\ pc' = "done"
             /\ resp'[Len(resp')].status = 403 /\ resp'[Len(resp')].code = "FORBIDDEN"]_vars

\* a user created as Teacher or OtherRole has become Administrator, and a
\* later request with the user's token has passed authorize(['Administrator'])
C29_Witness ==
  \E u \in UserIds :
    /\ CarriesTokenOf(u)
    /\ TokenRole(Token("valid", u)) # "Administrator"
    /\ users[u] # <<>> /\ users[u][1].userRole = "Administrator"
    /\ req.route = "GET /users"
    /\ pc = "controller" /\ auth = StoredIdentity

====
